---- MODULE Spec2Model ----
(***************************************************************************)
(* Model of the managed full-duplex stream of lokutor-orchestrator         *)
(* (pkg/orchestrator/managed_stream.go).                                   *)
(*                                                                         *)
(* Goroutines: the caller of Write and Close, the caller of Interrupt,     *)
(* the workers started by the speech-end hold (runBatchPipeline ->         *)
(* runLLMAndTTS) and the consumer of Events().  A step is a region held    *)
(* under ms.mu together with the calls that follow it up to the next       *)
(* channel operation, a channel operation, or the return of a provider;    *)
(* the goroutines interleave between steps.  The STT provider is a batch   *)
(* provider, except in SpecStream.                                         *)
(*                                                                         *)
(* Spec      : Write with two workers.                                     *)
(* SpecClose : Write and Close with one worker.                            *)
(* SpecUi    : Write and a concurrent Interrupt with one worker.           *)
(* SpecOrder : one turn, a concurrent Interrupt, the consumer observed.    *)
(* SpecTwice : one turn, Interrupt called twice.                           *)
(* SpecStream: Write with a streaming STT provider and one worker.         *)
(* SpecSession: AddMessage and GetContextCopy on a session of any capacity.*)
(* SpecVad   : RMSVAD.Process and Reset on a VAD and on its Clone.         *)
(* SpecAudio : the audio path of Write (echo removal, VAD, buffers, hold). *)
(* SpecLatency: the latency timestamps of consecutive turns.               *)
(* SpecProcess: Orchestrator.ProcessAudio and ProcessAudioStream.          *)
(* SpecTimeout: Write with one worker and providers that may block.        *)
(* SpecConv  : Conversation and Orchestrator calls on one session.         *)
(* SpecTwo   : two streams synthesizing through one LokutorTTS provider.   *)
(* SpecCloseUi: Write, Close and Interrupt with one worker.                *)
(***************************************************************************)
EXTENDS Integers, Sequences, FiniteSets, TLC

\* ---------------------------------------------------------------- bounds
MaxWorkers == 2     \* one-shot pipeline goroutines that may be spawned
MaxOps == 4         \* Write calls with a VAD event in Spec
QueueCap == 2       \* capacity of the event channel in the model
MaxChunks == 1      \* chunks one StreamSynthesize call delivers
MaxCloseCalls == 2  \* Close() calls
LifeOps == 3        \* Write calls with a VAD event in SpecClose and SpecUi
OrderOps == 2       \* Write calls with a VAD event in SpecOrder
MaxInterrupts == 2  \* Interrupt() calls in SpecTwice
StreamOps == 3      \* Write calls with a VAD event in SpecStream
MaxCtx == 3         \* largest MaxMessages of a session in SpecSession
MaxAdds == 5        \* AddMessage calls in SpecSession
MaxCallbacks == 2   \* transcripts one streaming STT session delivers
MaxFrames == 6       \* Process and Reset calls in SpecVad
MaxAudioOps == 5     \* API calls in SpecAudio
MaxTurns == 2        \* turns in SpecLatency
LatChunks == 2      \* chunks one TTS call delivers in SpecLatency
MaxCalls == 2       \* calls of ProcessAudio, ProcessAudioStream in SpecProcess
MaxConvOps == 2     \* calls of the Orchestrator and Conversation facade in SpecConv
ConvAdds == 3       \* messages added to the session in SpecConv
MaxSynth == 2       \* syntheses one stream starts in SpecTwo
MaxInts == 1        \* interrupts of one stream in SpecTwo

\* ------------------------------------------------------ program constants
MaxMessages == 20   \* ConversationSession.MaxMessages

\* goroutines: the caller of Write and Close, the pipeline workers, and the
\* caller of Interrupt
Api == 0
Workers == 1..MaxWorkers
Ui == MaxWorkers + 1
SttCb == MaxWorkers + 2     \* the goroutine of the streaming STT provider
Procs == {Api, Ui, SttCb} \cup Workers

\* Transcripts are sequences of characters: "w" a letter, " " a blank.
Transcripts == { <<>>, <<" ">>, <<"w">>, <<"w", " ", "w", " ", "w">> }
MinWordsChoices == {1, 3}

NoTok == [k |-> "none", w |-> 0]
Tok(kind, w) == [k |-> kind, w |-> w]

VARIABLES
    minWords,          \* Config.MinWordsToInterrupt
    isSpeaking, isThinking, userInterrupting,
    pipelineCancel, responseCancel, ttsCancel,
    sttGeneration,
    cancelled,         \* tokens whose CancelFunc has been called
    rootCancelled,     \* ms.cancel() called: ms.ctx is Done
    eventsClosed,      \* close(ms.events) executed
    closeCalls,        \* number of Close() calls made
    panicked,          \* an unrecovered panic has terminated the program
    events,            \* content of the channel ms.events
    vadSpeaking,       \* RMSVAD.isSpeaking
    lastAudioSent,     \* lastAudioSentAt is non-zero
    ttsAborted,        \* tts.Abort() has been called
    sess,              \* session.Context
    pc, loc,           \* position and locals of every goroutine
    ops,               \* API calls made so far
    tlog,              \* ghost: per turn, the event types passed to emit
    lost,              \* ghost: classes of events dropped on a live stream
    ghost,             \* ghost: record of flags used by the properties
    stt,               \* the streaming STT session (see SttInit)
    cs,                \* the ConversationSession around sess (see CsInit)
    vad,               \* an RMSVAD and its Clone, used alone (see VadInit)
    au,                \* the audio side of Write (see AuInit)
    lat,               \* the latency timestamps (see LatInit)
    pa,                \* a call of ProcessAudio (see PaInit)
    two                \* two streams of one Orchestrator (see TwoInit)

vars == << minWords, two, isSpeaking, isThinking, userInterrupting, pipelineCancel,
           responseCancel, ttsCancel, sttGeneration, cancelled, rootCancelled,
           eventsClosed, closeCalls, panicked, events, vadSpeaking,
           lastAudioSent, ttsAborted, sess, pc, loc, ops, tlog,
           lost, ghost, stt, cs, vad, au, lat, pa >>

\* ------------------------------------------------------------- helpers
\* countWords: number of maximal runs of non-blank characters.
RECURSIVE WordsFrom(_, _, _)
WordsFrom(s, i, inWord) ==
    IF i > Len(s) THEN 0
    ELSE IF s[i] = " " THEN WordsFrom(s, i + 1, FALSE)
    ELSE (IF inWord THEN 0 ELSE 1) + WordsFrom(s, i + 1, TRUE)

countWords(s) == WordsFrom(s, 1, FALSE)

\* context tree: pipeline ctx > response ctx > tts ctx, all under ms.ctx
Descendants(t) ==
    IF t.k = "p" THEN {Tok("p", t.w), Tok("r", t.w), Tok("t", t.w)}
    ELSE IF t.k = "r" THEN {Tok("r", t.w), Tok("t", t.w)}
    ELSE {t}

CancelAll(ts) == cancelled \cup UNION { Descendants(t) : t \in ts }

\* ctx.Err() != nil
Done(t) == rootCancelled \/ t \in cancelled

ControlType(ty) == ty # "AudioChunk"

\* the zero value of the event type, received from a closed channel
ZeroEvent == ""

\* a session that drops no message
AddMessageNoTrim(ctx, max, m) == Append(ctx, m)

\* ConversationSession.AddMessage
AddMessage(ctx, max, m) ==
    LET c == Append(ctx, m)
    IN  IF Len(c) > max THEN SubSeq(c, Len(c) - max + 1, Len(c)) ELSE c

\* the workers that have started and not returned
Running == {w \in Workers : pc[w] \notin {"idle", "done"}}

\* ghost log: event type ty was passed to emit, on a live stream, on
\* behalf of the turns ts
Logged(ty, ts) ==
    [t \in Workers |-> IF t \in ts THEN tlog[t] \cup {ty} ELSE tlog[t]]

\* ManagedStream.emit for a control event, and the send of an AudioChunk
\* that passed the gate: dropped when ms.ctx is done, enqueued when the
\* channel has room, dropped (default case) when it is full.
EmitSend(ty, ts) ==
    IF rootCancelled
    THEN UNCHANGED << events, lost, tlog >>
    ELSE /\ tlog' = Logged(ty, ts)
         /\ IF Len(events) < QueueCap
            THEN /\ events' = Append(events, ty)
                 /\ UNCHANGED lost
            ELSE /\ UNCHANGED events
                 /\ lost' = lost \cup {IF ControlType(ty) THEN "control"
                                       ELSE "audio"}

Goto(p, l) == pc' = [pc EXCEPT ![p] = l]

\* ghost: what a barge-in Write has done so far
NoSnap == [toks |-> {}, intr |-> 0, userSp |-> FALSE, cleared |-> FALSE,
           flagsOff |-> FALSE]

LocInit == [capt |-> {}, ctl |-> <<>>, tr |-> <<>>, origin |-> "", n |-> 0,
            snap |-> NoSnap, idle |-> FALSE, hung |-> FALSE]

\* where internalInterrupt returns to, by its call site
Ret(p) ==
    CASE loc[p].origin = "Close" -> "clCancel"
      [] loc[p].origin = "batch" -> "bpSetup"
      [] loc[p].origin = "gate" -> "bpFinal"
      [] loc[p].origin = "Interrupt" -> "done"
      [] loc[p].origin = "cbFinal" -> "cbFinal"
      [] loc[p].origin = "cbPartial" -> "cbPartial"
      [] loc[p].origin \in {"write", "barge"} /\ stt.streaming -> "sttOpen"
      [] OTHER -> "idle"

GhostInit == [cancelledInLLM |-> {}, llmFailed |-> {}, swallowed |-> FALSE,
              missedBarge |-> FALSE, earlyInterrupt |-> FALSE,
              intrd |-> {}, lateAudio |-> FALSE, afterFail |-> {},
              gotRank |-> 0, misordered |-> FALSE,
              ui |-> [calls |-> 0, ops |-> 0, quiet |-> FALSE, intr |-> 0],
              idleInterrupt |-> FALSE, staleAudio |-> FALSE,
              sttFinal |-> FALSE, llmOk |-> {}, unlocked |-> {},
              staleCalls |-> FALSE,
              talk |-> [open |-> FALSE, bad |-> FALSE]]

\* The streaming STT session.  streaming: the STT provider implements
\* StreamingSTTProvider; chan: ms.sttChan is non-nil; live: StreamTranscribe
\* has returned a session, whose context is tok and whose callback captured
\* the generation gen; ended: a SpeechEnd has set ms.sttChan to nil for
\* this session; closes: how many times the channel StreamTranscribe
\* returned has been closed (no statement of the package closes it);
\* calls: callbacks the provider has made.
SttInit(streaming) ==
    [streaming |-> streaming, chan |-> FALSE, live |-> FALSE, gen |-> 0,
     tok |-> NoTok, ended |-> FALSE, closes |-> 0, calls |-> 0]

\* the state after NewManagedStream
Start(streaming) ==
    /\ stt = SttInit(streaming)
    /\ minWords \in MinWordsChoices
    /\ isSpeaking = FALSE /\ isThinking = FALSE /\ userInterrupting = FALSE
    /\ pipelineCancel = NoTok /\ responseCancel = NoTok /\ ttsCancel = NoTok
    /\ sttGeneration = 0
    /\ cancelled = {}
    /\ rootCancelled = FALSE /\ eventsClosed = FALSE /\ closeCalls = 0
    /\ panicked = FALSE
    /\ events = <<>>
    /\ vadSpeaking = FALSE /\ lastAudioSent = FALSE
    /\ ttsAborted = FALSE
    /\ sess = <<>>
    /\ pc = [p \in Procs |-> "idle"]
    /\ loc = [p \in Procs |-> LocInit]
    /\ ops = 0
    /\ tlog = [t \in Workers |-> {}]
    /\ lost = {}
    /\ ghost = GhostInit

\* The ConversationSession whose Context is sess.  max: MaxMessages;
\* copy: what the last GetContextCopy returned; ghost: added, the messages
\* passed to AddMessage so far, and n, their number at the last
\* GetContextCopy.
\* cfg: Config.MaxContextMessages of the orchestrator the session was made
\* for; voice, language, lastUser, lastAssistant: CurrentVoice,
\* CurrentLanguage, LastUser, LastAssistant (NoText: the empty string);
\* shared: the last copy shares its storage with Context; ghost: calls,
\* the calls of the facade so far, unlocked, the fields read or written
\* without s.mu, leak, a write to the copy changed the session.
NoText == 0

CsInit(max) ==
    [max |-> max, added |-> << >>, copy |-> << >>, copied |-> FALSE, n |-> 0,
     cfg |-> max, voice |-> "F1", language |-> "en", lastUser |-> NoText,
     lastAssistant |-> NoText, shared |-> FALSE, calls |-> 0,
     unlocked |-> {}, leak |-> FALSE]

\* ------------------------------------------------------------- RMSVAD
\* Amplitudes (the RMS of a chunk, thresholds, the noise floor) are in
\* units of 1/10000 of full scale, alpha is in percent and times are in
\* units of 50 ms.  The zero time.Time is NoTime; clocks start at 1.
NoTime == 0

\* NewRMSVAD(threshold, silenceLimit)
NewRMSVAD(threshold, silenceLimit) ==
    [threshold |-> threshold, silenceLimit |-> silenceLimit,
     isSpeaking |-> FALSE, silenceStart |-> NoTime,
     adaptiveMode |-> TRUE, noiseFloor |-> 50, alpha |-> 5,
     consecutiveFrames |-> 0, minConfirmed |-> 7, lastRMS |-> 0]

SetAdaptiveMode(v, enabled) == [v EXCEPT !.adaptiveMode = enabled]
SetMinConfirmed(v, count) == [v EXCEPT !.minConfirmed = count]
SetThreshold(v, threshold) == [v EXCEPT !.threshold = threshold]

\* RMSVAD.Reset
Reset(v) ==
    [v EXCEPT !.isSpeaking = FALSE, !.silenceStart = NoTime,
              !.consecutiveFrames = 0]

\* RMSVAD.Clone: a new RMSVAD with three fields copied, the others zero
Clone(v) ==
    [threshold |-> v.threshold, silenceLimit |-> v.silenceLimit,
     isSpeaking |-> FALSE, silenceStart |-> NoTime,
     adaptiveMode |-> FALSE, noiseFloor |-> 0, alpha |-> 0,
     consecutiveFrames |-> 0, minConfirmed |-> v.minConfirmed, lastRMS |-> 0]

\* A chunk is its length in bytes and the amplitude of its samples.
\* calculateRMS: 0 for the empty chunk
calculateRMS(chunk) == IF chunk.len = 0 THEN 0 ELSE chunk.level

\* Process: the noise floor after the adaptive update
NoiseFloor(v, rms) ==
    IF ~v.adaptiveMode THEN v.noiseFloor
    ELSE IF rms < v.noiseFloor THEN rms
    ELSE IF ~v.isSpeaking /\ rms < 2 * v.threshold
    THEN ((100 - v.alpha) * v.noiseFloor + v.alpha * rms) \div 100
    ELSE v.noiseFloor

\* Process: the threshold the chunk is compared with, capped at 0.3 in
\* adaptive mode
EffectiveThreshold(v, rms) ==
    IF ~v.adaptiveMode THEN v.threshold
    ELSE LET a == 2 * NoiseFloor(v, rms)
             t == IF a > v.threshold THEN a ELSE v.threshold
         IN  IF t > 3000 THEN 3000 ELSE t

\* a Process that keeps the frame count on a chunk at or below the threshold
ProcessCountKept(v, rms, now) ==
    LET u == [v EXCEPT !.lastRMS = rms, !.noiseFloor = NoiseFloor(v, rms)]
    IN  IF rms > EffectiveThreshold(v, rms)
        THEN LET c == [u EXCEPT !.consecutiveFrames = @ + 1]
             IN  IF ~c.isSpeaking
                 THEN IF c.consecutiveFrames >= c.minConfirmed
                      THEN [v |-> [c EXCEPT !.isSpeaking = TRUE],
                            ev |-> "SPEECH_START"]
                      ELSE [v |-> c, ev |-> "nil"]
                 ELSE [v |-> [c EXCEPT !.silenceStart = NoTime], ev |-> "nil"]
        ELSE IF u.isSpeaking
             THEN LET s == IF u.silenceStart = NoTime THEN now
                           ELSE u.silenceStart
                  IN  IF now - s >= u.silenceLimit
                      THEN [v |-> [u EXCEPT !.isSpeaking = FALSE,
                                            !.silenceStart = NoTime],
                            ev |-> "SPEECH_END"]
                      ELSE [v |-> [u EXCEPT !.silenceStart = s],
                            ev |-> "SILENCE"]
             ELSE [v |-> u, ev |-> "SILENCE"]

\* RMSVAD.Process on a chunk of the given RMS at time now: the new state
\* and the event returned ("nil": no event)
Process(v, rms, now) ==
    LET u == [v EXCEPT !.lastRMS = rms, !.noiseFloor = NoiseFloor(v, rms)]
    IN  IF rms > EffectiveThreshold(v, rms)
        THEN LET c == [u EXCEPT !.consecutiveFrames = @ + 1]
             IN  IF ~c.isSpeaking
                 THEN IF c.consecutiveFrames >= c.minConfirmed
                      THEN [v |-> [c EXCEPT !.isSpeaking = TRUE],
                            ev |-> "SPEECH_START"]
                      ELSE [v |-> c, ev |-> "nil"]
                 ELSE [v |-> [c EXCEPT !.silenceStart = NoTime], ev |-> "nil"]
        ELSE LET c == [u EXCEPT !.consecutiveFrames = 0]
             IN  IF c.isSpeaking
                 THEN LET s == IF c.silenceStart = NoTime THEN now
                               ELSE c.silenceStart
                      IN  IF now - s >= c.silenceLimit
                          THEN [v |-> [c EXCEPT !.isSpeaking = FALSE,
                                                !.silenceStart = NoTime],
                                ev |-> "SPEECH_END"]
                          ELSE [v |-> [c EXCEPT !.silenceStart = s],
                                ev |-> "SILENCE"]
                 ELSE [v |-> c, ev |-> "SILENCE"]

\* An RMSVAD src made by NewRMSVAD and SetMinConfirmed, and cln, its Clone;
\* now: the clock; n: calls made; ghost: hist, for every Process call on src
\* since the last Reset whether the chunk was above the effective
\* threshold, the time and the event returned; diverged: the two instances
\* have answered one chunk with different events.
VadInit(threshold, silenceLimit, minConfirmed) ==
    LET s == SetMinConfirmed(NewRMSVAD(threshold, silenceLimit), minConfirmed)
    IN  [src |-> s, cln |-> Clone(s), now |-> 1, n |-> 0, hist |-> << >>,
         diverged |-> FALSE]

VadIdle == VadInit(200, 2, 1)

\* ------------------------------------------------ the audio side of Write
\* vad: the stream's RMSVAD, the Clone NewManagedStream makes; now: the
\* clock; n: API calls made; streaming: the STT provider implements
\* StreamingSTTProvider; played: the echo suppressor holds audio played
\* less than echoSilenceMS ago; sentAt: lastAudioSentAt; buf:
\* ms.audioBuf.Len(); user: len(ms.lastUserAudio); sttChan: ms.sttChan is
\* non-nil; sent: bytes offered to the STT input; holds: the buffers
\* captured by the pending speech-end holds (ghost: resumed, the VAD has
\* answered SpeechStart since); batches: runBatchPipeline calls made.
\* Ghost: fire, what the last hold did when its timer fired; last, the
\* last Write (len: the chunk's length, echo:
\* its classification, ev: the VAD's event, emitted: event types passed to
\* emit, pre and post: the state before and after the call, mid: the
\* buffers before the last part of Write, chan: ms.sttChan was non-nil
\* there, trimmed: the pre-roll buffer was cut); seq: the chunks audioBuf
\* holds, each with the number of the Write that appended it and the bytes
\* of it still there; handed: the chunks of the buffer the last
\* runBatchPipeline call was given; reins: a hold has reinserted its buffer.
AuState(a) ==
    [vad |-> a.vad, buf |-> a.buf, user |-> a.user, sttChan |-> a.sttChan,
     sent |-> a.sent, holds |-> a.holds]

AuInit(threshold, silenceLimit, minConfirmed, streaming) ==
    LET a == [vad |-> Clone(SetMinConfirmed(
                                NewRMSVAD(threshold, silenceLimit),
                                minConfirmed)),
              now |-> 1, n |-> 0, streaming |-> streaming, played |-> FALSE,
              sentAt |-> NoTime, buf |-> 0, user |-> 0, sttChan |-> FALSE,
              sent |-> 0, holds |-> << >>, batches |-> 0]
    IN  [vad |-> a.vad, now |-> 1, n |-> 0, streaming |-> streaming,
         played |-> FALSE, sentAt |-> NoTime, buf |-> 0, user |-> 0,
         sttChan |-> FALSE, sent |-> 0, holds |-> << >>, batches |-> 0,
         seq |-> << >>, handed |-> << >>, reins |-> FALSE,
         fire |-> [any |-> FALSE, resumed |-> FALSE, ran |-> FALSE,
                   reinserted |-> FALSE],
         last |-> [len |-> -1, echo |-> FALSE, ev |-> "nil", emitted |-> {},
                   pre |-> AuState(a), mid |-> AuState(a),
                   post |-> AuState(a), chan |-> FALSE, trimmed |-> FALSE]]

AuIdle == AuInit(100, 1, 1, FALSE)

\* ------------------------------------------------- latency timestamps
\* The timestamps of ManagedStream (NoTime: the zero time.Time), the clock
\* now, the position phase of the one turn in progress, the number of
\* turns started and the number of chunks the TTS call has delivered.
LatInit ==
    [now |-> 1, phase |-> "idle", turns |-> 0, chunks |-> 0,
     userSpeechEndTime |-> NoTime, sttStartTime |-> NoTime,
     sttEndTime |-> NoTime, llmStartTime |-> NoTime, llmEndTime |-> NoTime,
     ttsStartTime |-> NoTime, ttsFirstChunkTime |-> NoTime,
     ttsEndTime |-> NoTime, botSpeakStartTime |-> NoTime,
     lastAudioSentAt |-> NoTime]

\* t.Sub(u).Milliseconds(), in the unit of the clock
Sub(t, u) == t - u

\* GetLatencyBreakdown on the timestamps l
GetLatencyBreakdown(l) ==
    LET zero == [UserToSTT |-> 0, STT |-> 0, UserToLLM |-> 0, LLM |-> 0,
                 UserToTTSFirstByte |-> 0, LLMToTTSFirstByte |-> 0,
                 TTSTotal |-> 0, BotStartLatency |-> 0, UserToPlay |-> 0]
        u == l.userSpeechEndTime
    IN  IF u = NoTime THEN zero
        ELSE [UserToSTT |-> IF l.sttEndTime # NoTime
                            THEN Sub(l.sttEndTime, u) ELSE 0,
              STT |-> IF l.sttStartTime # NoTime /\ l.sttEndTime # NoTime
                      THEN Sub(l.sttEndTime, l.sttStartTime) ELSE 0,
              UserToLLM |-> IF l.llmEndTime # NoTime
                            THEN Sub(l.llmEndTime, u) ELSE 0,
              LLM |-> IF l.llmStartTime # NoTime /\ l.llmEndTime # NoTime
                      THEN Sub(l.llmEndTime, l.llmStartTime) ELSE 0,
              UserToTTSFirstByte |-> IF l.ttsFirstChunkTime # NoTime
                                     THEN Sub(l.ttsFirstChunkTime, u) ELSE 0,
              LLMToTTSFirstByte |->
                  IF l.llmEndTime # NoTime /\ l.ttsFirstChunkTime # NoTime
                  THEN Sub(l.ttsFirstChunkTime, l.llmEndTime) ELSE 0,
              TTSTotal |-> IF l.ttsStartTime # NoTime /\ l.ttsEndTime # NoTime
                           THEN Sub(l.ttsEndTime, l.ttsStartTime) ELSE 0,
              BotStartLatency |-> IF l.botSpeakStartTime # NoTime
                                  THEN Sub(l.botSpeakStartTime, u) ELSE 0,
              UserToPlay |-> IF l.lastAudioSentAt # NoTime
                             THEN Sub(l.lastAudioSentAt, u) ELSE 0]

\* ------------------------------------------------------- ProcessAudio
\* An error is its message, a sequence of parts, and the set of the errors
\* errors.Is finds in its chain.
ErrEmptyTranscription ==
    [msg |-> << "transcription returned empty text" >>,
     chain |-> {"ErrEmptyTranscription"}]
ErrTranscriptionFailed ==
    [msg |-> << "speech-to-text transcription failed" >>,
     chain |-> {"ErrTranscriptionFailed"}]
ErrLLMFailed ==
    [msg |-> << "language model generation failed" >>,
     chain |-> {"ErrLLMFailed"}]
ErrTTSFailed ==
    [msg |-> << "text-to-speech synthesis failed" >>,
     chain |-> {"ErrTTSFailed"}]
NoErr == [msg |-> << >>, chain |-> {}]

\* the error a provider returns, named by its message
ProviderErr(m) == [msg |-> << m >>, chain |-> {m}]

\* fmt.Errorf(prefix + ": %w", err): the prefix, then err's message; err
\* stays in the chain
ErrorfPrefixW(prefix, err) ==
    [msg |-> << prefix, ": " >> \o err.msg, chain |-> err.chain]

\* fmt.Errorf("%w: %v", tag, err): tag's message, then err's; tag is in
\* the chain and err is not
ErrorfWV(tag, err) ==
    [msg |-> tag.msg \o << ": " >> \o err.msg, chain |-> tag.chain]

\* The calls of ProcessAudio and ProcessAudioStream.  calls: how many were
\* made; of the last one, in: which of the two it was and what the
\* providers answered (an empty message: no error), before: the session
\* when it was called, ret: the transcript and the error returned.
PaInit(in) ==
    [in |-> in, calls |-> 0, before |-> << >>,
     ret |-> [transcript |-> << >>, err |-> NoErr]]

PaIdle ==
    PaInit([stream |-> FALSE, transcript |-> << >>, stt |-> "", llm |-> "",
            tts |-> ""])

\* ------------------------------------------- two streams, one TTS provider
\* The LokutorTTS of an Orchestrator and the runLLMAndTTS of two
\* ManagedStreams made from it.  conn: t.conn, the number of the open
\* connection (NoConn: nil); dials: connections dialled so far; closed: the
\* connections closed; mu: the stream whose call holds t.mu (0: free).
\* Per stream: at, where its synthesis is ("idle", "gotConn": getConn has
\* returned, "synth": the request is written and t.mu is held, "ok",
\* "err"); conn, the connection getConn returned; cancelled, its TTS
\* context is cancelled; aborting, its internalInterrupt has yet to call
\* tts.Abort(); n, the syntheses it has started; ints, its interrupts.
NoConn == 0
Streams == {1, 2}

TwoInit ==
    [conn |-> NoConn, dials |-> 0, closed |-> {}, mu |-> 0,
     st |-> [s \in Streams |->
               [at |-> "idle", conn |-> NoConn, cancelled |-> FALSE,
                aborting |-> FALSE, n |-> 0, ints |-> 0]]]

\* the other parts when a part of the model is used alone
Aside(parts) ==
    /\ IF "cs" \in parts THEN TRUE ELSE cs = CsInit(MaxMessages)
    /\ IF "vad" \in parts THEN TRUE ELSE vad = VadIdle
    /\ IF "au" \in parts THEN TRUE ELSE au = AuIdle
    /\ IF "lat" \in parts THEN TRUE ELSE lat = LatInit
    /\ IF "pa" \in parts THEN TRUE ELSE pa = PaIdle
    /\ IF "two" \in parts THEN TRUE ELSE two = TwoInit

Init == Start(FALSE) /\ Aside({})

flagsV == << isSpeaking, isThinking, userInterrupting >>
handlesV == << pipelineCancel, responseCancel, ttsCancel >>
lifeV == << rootCancelled, eventsClosed, closeCalls, panicked >>
chanV == << events, tlog, lost >>
envV == << vadSpeaking, lastAudioSent >>

\* ------------------------------------------------- internalInterrupt
\* internalInterrupt up to the receive loop of drainAudioChunks.  Under
\* ms.mu: return when nothing is active, otherwise capture and clear the
\* cancel handles, bump sttGeneration and clear the three flags.  After
\* the unlock: call the captured CancelFuncs and tts.Abort(), then take
\* everything out of the channel and keep the control events.  A closed
\* channel yields zero-valued events until the 100 ms deadline, and a zero
\* event is not an AudioChunk.
IntLock(p) ==
    /\ pc[p] = "iLock"
    /\ IF /\ pipelineCancel = NoTok /\ responseCancel = NoTok
          /\ ttsCancel = NoTok
          /\ ~isSpeaking /\ ~isThinking /\ ~userInterrupting
       THEN /\ Goto(p, Ret(p))
            /\ loc' = [loc EXCEPT ![p] = IF loc[p].origin = "barge" THEN @
                                         ELSE LocInit]
            /\ UNCHANGED << flagsV, handlesV, sttGeneration, ghost, cancelled,
                            ttsAborted, events, stt >>
       ELSE LET capt == {pipelineCancel, responseCancel, ttsCancel} \ {NoTok}
                ctl == IF eventsClosed THEN << ZeroEvent >>
                       ELSE SelectSeq(events, ControlType)
            IN  /\ pipelineCancel' = NoTok
                /\ responseCancel' = NoTok
                /\ ttsCancel' = NoTok
                /\ stt' = [stt EXCEPT !.chan = FALSE]
                /\ sttGeneration' = sttGeneration + 1
                /\ isSpeaking' = FALSE
                /\ isThinking' = FALSE
                /\ userInterrupting' = FALSE
                /\ loc' = [loc EXCEPT
                       ![p].capt = capt,
                       ![p].ctl = ctl,
                       ![p].idle = /\ ~isSpeaking /\ ~isThinking
                                   /\ ~userInterrupting
                                   /\ Running \ {p} = {},
                       ![p].snap.cleared = (loc[p].origin = "barge"),
                       ![p].snap.flagsOff =
                           /\ loc[p].origin = "barge"
                           /\ ~isSpeaking' /\ ~isThinking'
                           /\ ~userInterrupting']
                /\ cancelled' = CancelAll(capt)
                /\ ttsAborted' = TRUE
                /\ events' = IF eventsClosed THEN events ELSE << >>
                /\ ghost' = [ghost EXCEPT
                       !.swallowed = FALSE,
                       !.earlyInterrupt = @ \/
                           (/\ isSpeaking /\ minWords > 1
                            /\ loc[p].origin \in {"barge", "write", "batch"}),
                       !.cancelledInLLM = @ \cup
                           {w \in Workers :
                               pc[w] = "llm" /\ Tok("r", w) \in cancelled'}]
                /\ Goto(p, IF ctl = << >> THEN "iEmit" ELSE "iReenq")
    /\ UNCHANGED << minWords, two, cs, vad, au, lat, pa, lifeV, tlog, lost, envV, sess, ops >>

\* what the re-enqueue loop of drainAudioChunks leaves in the channel
RECURSIVE Reenqueue(_, _)
Reenqueue(q, ctl) ==
    IF ctl = << >> THEN q
    ELSE IF Len(q) < QueueCap THEN Reenqueue(Append(q, Head(ctl)), Tail(ctl))
    ELSE Reenqueue(q, Tail(ctl))

\* drainAudioChunks, re-enqueue loop: non-blocking sends with no recover;
\* a send on the closed channel panics.
IntReenq(p) ==
    /\ pc[p] = "iReenq"
    /\ IF eventsClosed
       THEN /\ panicked' = TRUE
            /\ UNCHANGED << events, lost, pc >>
       ELSE /\ events' = Reenqueue(events, loc[p].ctl)
            /\ lost' = IF Len(events) + Len(loc[p].ctl) > QueueCap
                       THEN lost \cup {"control"} ELSE lost
            /\ Goto(p, "iEmit")
            /\ UNCHANGED panicked
    /\ loc' = [loc EXCEPT ![p].ctl = << >>]
    /\ UNCHANGED << minWords, two, cs, vad, au, lat, pa, stt, flagsV, handlesV, sttGeneration, cancelled,
                    rootCancelled, eventsClosed, closeCalls, tlog, envV,
                    ttsAborted, sess, ops, ghost >>

\* the running turns whose CancelFuncs p's internalInterrupt has called
Victims(p) == {t.w : t \in loc[p].capt} \cap Running

\* ms.emit(Interrupted, nil) at the end of internalInterrupt
IntEmit(p) ==
    /\ pc[p] = "iEmit"
    /\ EmitSend("Interrupted", Victims(p))
    /\ ghost' = [ghost EXCEPT
                    !.intrd = @ \cup
                        IF ~rootCancelled /\ Len(events) < QueueCap
                        THEN Victims(p) ELSE {},
                    !.idleInterrupt = @ \/
                        (/\ loc[p].idle /\ ~rootCancelled
                         /\ Len(events) < QueueCap
                         /\ loc[p].origin \in {"write", "batch"}),
                    !.ui.intr = IF p = Ui /\ ghost.ui.calls > 0
                                   /\ ~rootCancelled
                                THEN @ + 1 ELSE @]
    /\ loc' = [loc EXCEPT ![p] =
                 IF loc[p].origin = "barge"
                 THEN [@ EXCEPT !.capt = {}, !.idle = FALSE,
                                !.snap.intr = @ + 1]
                 ELSE LocInit]
    /\ Goto(p, Ret(p))
    /\ UNCHANGED << minWords, two, cs, vad, au, lat, pa, stt, flagsV, handlesV, sttGeneration, cancelled,
                    lifeV, envV, ttsAborted, sess, ops >>

internalInterrupt(p) ==
    IntLock(p) \/ IntReenq(p) \/ IntEmit(p)

\* ------------------------------------------------------ the API callers
apiUnch == << minWords, two, cs, vad, au, lat, pa, stt, rootCancelled, eventsClosed, panicked, ttsAborted,
              sess >>

\* a barge-in that takes the pipeline CancelFunc and never calls it
TakePipelineNotCalled ==
    /\ pipelineCancel' = NoTok
    /\ UNCHANGED cancelled

\* Write, barge-in: take the pipeline CancelFunc under the lock and call
\* it after the unlock
TakePipeline ==
    /\ pipelineCancel' = NoTok
    /\ cancelled' = CancelAll({pipelineCancel} \ {NoTok})

\* Write with a chunk the VAD answers SpeechStart to (it was not speaking).
\* IsEcho can answer true only once audio has been played, and a
\* SpeechStart classified as echo is swallowed; so is, while the bot
\* speaks (read under the lock), one less than 120 ms after the last audio
\* chunk.  Otherwise the branch goes on as a barge-in while the bot speaks
\* and as a normal user turn while it does not.
WriteSpeechStart(echo, recent, maxOps) ==
    /\ pc[Api] = "idle"
    /\ ops < maxOps
    /\ ~vadSpeaking
    /\ echo => lastAudioSent
    /\ recent => lastAudioSent
    /\ vadSpeaking' = TRUE
    /\ ops' = ops + 1
    /\ IF echo \/ (isSpeaking /\ recent)
       THEN /\ ghost' = [ghost EXCEPT !.swallowed = @ \/ isSpeaking]
            /\ loc' = [loc EXCEPT ![Api] = LocInit]
            /\ UNCHANGED pc
       ELSE /\ Goto(Api, IF isSpeaking THEN "ssBarge" ELSE "ssEmit")
            /\ loc' = [loc EXCEPT ![Api] = [LocInit EXCEPT !.origin =
                                     IF isSpeaking THEN "barge" ELSE "write"]]
            /\ UNCHANGED ghost
    /\ UNCHANGED << apiUnch, flagsV, handlesV, sttGeneration, cancelled,
                    closeCalls, chanV, lastAudioSent >>

\* Write, barge-in: under the lock set userInterrupting, bump
\* sttGeneration and take the pipeline CancelFunc; call it after the unlock
SSBarge ==
    /\ pc[Api] = "ssBarge"
    /\ userInterrupting' = TRUE
    /\ sttGeneration' = sttGeneration + 1
    /\ TakePipeline
    /\ loc' = [loc EXCEPT ![Api].snap.toks =
                 {pipelineCancel, responseCancel, ttsCancel} \ {NoTok}]
    /\ Goto(Api, "ssEmit")
    /\ UNCHANGED << apiUnch, isSpeaking, isThinking, responseCancel,
                    ttsCancel, closeCalls, chanV, envV, ops, ghost >>

\* Write: emit(UserSpeaking), then call internalInterrupt; Write returns
\* when internalInterrupt does (the STT provider is a batch provider).
SSEmit ==
    /\ pc[Api] = "ssEmit"
    /\ EmitSend("UserSpeaking", {})
    /\ ghost' = [ghost EXCEPT !.talk = IF rootCancelled THEN @
                                       ELSE [open |-> TRUE,
                                             bad |-> @.bad \/ @.open]]
    /\ loc' = [loc EXCEPT ![Api].snap.userSp = TRUE]
    /\ Goto(Api, "iLock")
    /\ UNCHANGED << apiUnch, flagsV, handlesV, sttGeneration, cancelled,
                    closeCalls, envV, ops >>

\* Write with a chunk the VAD answers SpeechEnd to (it was speaking):
\* emit(UserStopped); under the lock, with a streaming session set
\* ms.sttChan to nil, otherwise copy and reset the buffer and start the
\* goroutine of the speech-end hold.
WriteSpeechEnd(maxOps, ws) ==
    /\ pc[Api] = "idle"
    /\ ops < maxOps
    /\ vadSpeaking
    /\ vadSpeaking' = FALSE
    /\ ops' = ops + 1
    /\ ghost' = [ghost EXCEPT !.missedBarge = @ \/ ghost.swallowed,
                              !.swallowed = FALSE,
                              !.talk = IF rootCancelled THEN @
                                       ELSE [open |-> FALSE,
                                             bad |-> @.bad \/ ~@.open]]
    /\ EmitSend("UserStopped", {})
    /\ IF stt.chan
       THEN /\ stt' = [stt EXCEPT !.chan = FALSE, !.ended = TRUE]
            /\ UNCHANGED pc
       ELSE /\ \E w \in ws :
                 /\ pc[w] = "idle"
                 /\ \A v \in ws : pc[v] = "idle" => w <= v
                 /\ pc' = [pc EXCEPT ![w] = "hold"]
            /\ UNCHANGED stt
    /\ loc' = [loc EXCEPT ![Api] = LocInit]
    /\ UNCHANGED << minWords, two, cs, vad, au, lat, pa, rootCancelled, eventsClosed, panicked,
                    ttsAborted, sess, flagsV, handlesV, sttGeneration,
                    cancelled, closeCalls, lastAudioSent >>

\* startStreamingSTT, first part: create the session context, read
\* sttGeneration under the lock and call StreamTranscribe; when it fails,
\* emit(ErrorEvent), cancel the context and return.
SttOpen(failed) ==
    /\ pc[Api] = "sttOpen"
    /\ IF failed
       THEN /\ EmitSend("Error", {})
            /\ cancelled' = CancelAll({Tok("s", -ops)})
            /\ Goto(Api, "idle")
            /\ UNCHANGED stt
       ELSE /\ stt' = [stt EXCEPT !.live = TRUE, !.gen = sttGeneration,
                                  !.tok = Tok("s", -ops), !.ended = FALSE,
                                  !.calls = 0]
            /\ Goto(Api, "sttStore")
            /\ UNCHANGED << chanV, cancelled >>
    /\ UNCHANGED << minWords, two, cs, vad, au, lat, pa, rootCancelled, eventsClosed, panicked,
                    ttsAborted, sess, flagsV, handlesV, sttGeneration,
                    closeCalls, envV, ops, loc, ghost >>

\* startStreamingSTT, second part: store the session's context, its
\* CancelFunc and its input channel in ms.pipelineCtx, ms.pipelineCancel
\* and ms.sttChan, set ms.sttStartTime and move ms.audioBuf to
\* ms.lastUserAudio; Write returns.  The function takes ms.mu for none of
\* these statements (ghost.unlocked: the fields accessed without it).
SttStore ==
    /\ pc[Api] = "sttStore"
    /\ pipelineCancel' = stt.tok
    /\ stt' = [stt EXCEPT !.chan = TRUE]
    /\ ghost' = [ghost EXCEPT !.unlocked =
                     @ \cup {"pipelineCtx", "pipelineCancel", "sttChan",
                             "sttStartTime", "audioBuf", "lastUserAudio"}]
    /\ Goto(Api, "idle")
    /\ UNCHANGED << minWords, two, cs, vad, au, lat, pa, rootCancelled, eventsClosed, panicked,
                    ttsAborted, sess, flagsV, responseCancel, ttsCancel,
                    sttGeneration, cancelled, closeCalls, chanV, envV, ops,
                    loc >>

\* strings.TrimSpace(transcript) == ""
Blank(t) == \A i \in 1..Len(t) : t[i] = " "

\* a callback that does not compare the generations
StreamCallbackNoStaleCheck(final, transcript) ==
    /\ pc[SttCb] = "idle"
    /\ stt.live /\ ~Done(stt.tok)
    /\ stt.calls < MaxCallbacks
    /\ stt' = [stt EXCEPT !.calls = @ + 1]
    /\ LET stale == FALSE
           gated == /\ isSpeaking /\ minWords > 1
                    /\ countWords(transcript) < minWords
           intr == IF isSpeaking
                   THEN minWords > 1 \/ ~Blank(transcript)
                   ELSE isThinking /\ ~Blank(transcript)
           next == IF final THEN "cbFinal" ELSE "cbPartial"
       IN  IF stale \/ (gated /\ final)
           THEN UNCHANGED << pc, loc, chanV >>
           ELSE IF gated
           THEN /\ EmitSend("TranscriptPartial", {})
                /\ UNCHANGED << pc, loc >>
           ELSE IF intr
           THEN /\ Goto(SttCb, "iLock")
                /\ loc' = [loc EXCEPT ![SttCb] =
                                     [LocInit EXCEPT !.origin = next]]
                /\ UNCHANGED chanV
           ELSE /\ Goto(SttCb, next)
                /\ UNCHANGED << loc, chanV >>
    /\ ghost' = [ghost EXCEPT !.staleCalls = @ \/ sttGeneration # stt.gen]
    /\ UNCHANGED << minWords, two, cs, vad, au, lat, pa, lifeV, ttsAborted, sess, flagsV, handlesV,
                    sttGeneration, cancelled, envV, ops >>

\* The callback the streaming provider calls with a transcript, up to its
\* first emit or internalInterrupt.  Under the lock it reads isSpeaking,
\* isThinking and whether its generation is stale.  A stale callback
\* returns.  While the bot speaks and MinWordsToInterrupt > 1, a transcript
\* with too few words is emitted as TranscriptPartial when it is partial
\* and dropped when it is final; other transcripts interrupt the bot when
\* it speaks (with MinWordsToInterrupt = 1 or while it thinks: when they
\* are not blank).
StreamCallback(final, transcript) ==
    /\ pc[SttCb] = "idle"
    /\ stt.live /\ ~Done(stt.tok)
    /\ stt.calls < MaxCallbacks
    /\ stt' = [stt EXCEPT !.calls = @ + 1]
    /\ LET stale == sttGeneration # stt.gen
           gated == /\ isSpeaking /\ minWords > 1
                    /\ countWords(transcript) < minWords
           intr == IF isSpeaking
                   THEN minWords > 1 \/ ~Blank(transcript)
                   ELSE isThinking /\ ~Blank(transcript)
           next == IF final THEN "cbFinal" ELSE "cbPartial"
       IN  IF stale \/ (gated /\ final)
           THEN UNCHANGED << pc, loc, chanV >>
           ELSE IF gated
           THEN /\ EmitSend("TranscriptPartial", {})
                /\ UNCHANGED << pc, loc >>
           ELSE IF intr
           THEN /\ Goto(SttCb, "iLock")
                /\ loc' = [loc EXCEPT ![SttCb] =
                                     [LocInit EXCEPT !.origin = next]]
                /\ UNCHANGED chanV
           ELSE /\ Goto(SttCb, next)
                /\ UNCHANGED << loc, chanV >>
    /\ ghost' = [ghost EXCEPT !.staleCalls = @ \/ sttGeneration # stt.gen]
    /\ UNCHANGED << minWords, two, cs, vad, au, lat, pa, lifeV, ttsAborted, sess, flagsV, handlesV,
                    sttGeneration, cancelled, envV, ops >>

\* the callback with a final transcript: emit(TranscriptFinal),
\* session.AddMessage("user"); return
CbFinal ==
    /\ pc[SttCb] = "cbFinal"
    /\ EmitSend("TranscriptFinal", {})
    /\ sess' = AddMessage(sess, MaxMessages,
                          [role |-> "user", turn |-> stt.tok.w])
    /\ ghost' = [ghost EXCEPT !.sttFinal = TRUE]
    /\ Goto(SttCb, "idle")
    /\ loc' = [loc EXCEPT ![SttCb] = LocInit]
    /\ UNCHANGED << minWords, two, cs, vad, au, lat, pa, stt, lifeV, ttsAborted, flagsV, handlesV,
                    sttGeneration, cancelled, envV, ops >>

\* the callback with a partial transcript: emit(TranscriptPartial); return
CbPartial ==
    /\ pc[SttCb] = "cbPartial"
    /\ EmitSend("TranscriptPartial", {})
    /\ Goto(SttCb, "idle")
    /\ loc' = [loc EXCEPT ![SttCb] = LocInit]
    /\ UNCHANGED << minWords, two, cs, vad, au, lat, pa, stt, lifeV, ttsAborted, sess, flagsV, handlesV,
                    sttGeneration, cancelled, envV, ops, ghost >>

\* ManagedStream.Interrupt, called from another goroutine than Write: set
\* userInterrupting under the lock, then internalInterrupt
UiInterrupt ==
    /\ pc[Ui] = "idle"
    /\ userInterrupting' = TRUE
    /\ loc' = [loc EXCEPT ![Ui].origin = "Interrupt"]
    /\ Goto(Ui, "iLock")
    /\ UNCHANGED << apiUnch, isSpeaking, isThinking, handlesV,
                    sttGeneration, cancelled, closeCalls, chanV, envV,
                    ops, ghost >>

\* ManagedStream.Interrupt called again and again from the second
\* goroutine, each call after the one before it has returned.  Ghost: the
\* number of calls, and whether every call so far was made with no worker
\* running and no Write since the first call.
UiInterruptCounted ==
    /\ pc[Ui] \in {"idle", "done"}
    /\ ghost.ui.calls < MaxInterrupts
    /\ userInterrupting' = TRUE
    /\ loc' = [loc EXCEPT ![Ui] = [LocInit EXCEPT !.origin = "Interrupt"]]
    /\ Goto(Ui, "iLock")
    /\ ghost' = [ghost EXCEPT
                    !.ui.calls = @ + 1,
                    !.ui.ops = IF ghost.ui.calls = 0 THEN ops ELSE @,
                    !.ui.quiet =
                        /\ Running = {} /\ pc[Api] = "idle"
                        /\ IF ghost.ui.calls = 0 THEN TRUE
                           ELSE @ /\ ops = ghost.ui.ops]
    /\ UNCHANGED << apiUnch, isSpeaking, isThinking, handlesV,
                    sttGeneration, cancelled, closeCalls, chanV, envV,
                    ops >>

\* ManagedStream.Close: closeOnce lets only the first call run the body,
\* which starts with internalInterrupt
ApiClose ==
    /\ pc[Api] = "idle"
    /\ closeCalls < MaxCloseCalls
    /\ closeCalls' = closeCalls + 1
    /\ IF closeCalls = 0
       THEN /\ loc' = [loc EXCEPT ![Api] = [LocInit EXCEPT !.origin = "Close"]]
            /\ Goto(Api, "iLock")
       ELSE UNCHANGED << pc, loc >>
    /\ UNCHANGED << apiUnch, flagsV, handlesV, sttGeneration, cancelled,
                    chanV, envV, ops, ghost >>

\* Close: audioBuf.Reset, ClearEchoBuffer, ms.cancel(); then, after the
\* 10 ms sleep, close(ms.events)
ClCancel ==
    /\ pc[Api] = "clCancel"
    /\ rootCancelled' = TRUE
    /\ Goto(Api, "clClose")
    /\ UNCHANGED << minWords, two, cs, vad, au, lat, pa, stt, flagsV, handlesV, sttGeneration, cancelled,
                    eventsClosed, closeCalls, panicked, chanV, envV,
                    ttsAborted, sess, ops, loc, ghost >>

ClClose ==
    /\ pc[Api] = "clClose"
    /\ eventsClosed' = TRUE
    /\ Goto(Api, "idle")
    /\ UNCHANGED << minWords, two, cs, vad, au, lat, pa, stt, flagsV, handlesV, sttGeneration, cancelled,
                    rootCancelled, closeCalls, panicked, chanV, envV,
                    ttsAborted, sess, ops, loc, ghost >>

\* the consumer of Events() receives the head of the channel
Receive ==
    /\ events # << >>
    /\ events' = Tail(events)
    /\ UNCHANGED << minWords, two, cs, vad, au, lat, pa, stt, flagsV, handlesV, sttGeneration, cancelled,
                    lifeV, tlog, lost, envV, ttsAborted, sess, pc, loc, ops,
                    ghost >>

\* position of a bot event in the order runLLMAndTTS emits a turn's events
Rank(ty) ==
    CASE ty = "BotThinking" -> 1
      [] ty = "BotResponse" -> 2
      [] ty = "BotSpeaking" -> 3
      [] ty = "AudioChunk" -> 4
      [] OTHER -> 0

\* the consumer of Events() receives the head of the channel and compares
\* it with the bot events it has received before
ReceiveObserved ==
    /\ events # << >>
    /\ events' = Tail(events)
    /\ LET r == Rank(Head(events))
       IN  ghost' = IF r = 0 THEN ghost
                    ELSE [ghost EXCEPT
                            !.gotRank = IF r > @ THEN r ELSE @,
                            !.misordered = @ \/ r < ghost.gotRank]
    /\ UNCHANGED << minWords, two, cs, vad, au, lat, pa, stt, flagsV, handlesV, sttGeneration, cancelled,
                    lifeV, tlog, lost, envV, ttsAborted, sess, pc, loc, ops >>

\* --------------------------------------------------- the pipeline workers
wUnch == << minWords, two, cs, vad, au, lat, pa, stt, lifeV, ttsAborted, ops >>

\* the select of emit when the ms.ctx.Done() check was passed earlier: a
\* send on the closed channel panics and is recovered; with ms.ctx done
\* the select may take either ready case.
EmitSelect(ty, ts, giveUp) ==
    IF eventsClosed \/ (rootCancelled /\ giveUp)
    THEN UNCHANGED << events, lost, tlog >>
    ELSE /\ tlog' = IF rootCancelled THEN tlog ELSE Logged(ty, ts)
         /\ IF Len(events) < QueueCap
            THEN /\ events' = Append(events, ty)
                 /\ UNCHANGED lost
            ELSE /\ UNCHANGED events
                 /\ lost' = IF rootCancelled THEN lost
                            ELSE lost \cup {IF ControlType(ty) THEN "control"
                                            ELSE "audio"}

\* the deferred CancelFuncs of a worker run when it returns
Return(w) ==
    /\ cancelled' = CancelAll({Tok("p", w)})
    /\ Goto(w, "done")
    /\ loc' = [loc EXCEPT ![w] = LocInit]

\* The goroutine of the speech-end hold: after 300 ms, if the VAD reports
\* speaking the buffer is reinserted, otherwise runBatchPipeline starts
\* (with internalInterrupt); when ms.ctx is done the select may return.
\* The read of the VAD's state is not synchronised with Write: it yields
\* the value the VAD holds when the read happens.
TimerFire(w, ctxBranch) ==
    /\ pc[w] = "hold"
    /\ ctxBranch => rootCancelled
    /\ IF ctxBranch \/ vadSpeaking
       THEN /\ Goto(w, "done")
            /\ UNCHANGED loc
       ELSE /\ Goto(w, "iLock")
            /\ loc' = [loc EXCEPT ![w].origin = "batch"]
    /\ ghost' = [ghost EXCEPT !.afterFail = @ \cup
                    IF \E v \in ghost.llmFailed : pc[v] = "done"
                    THEN {w} ELSE {}]
    /\ UNCHANGED << wUnch, flagsV, handlesV, sttGeneration, cancelled, chanV,
                    envV, sess >>

\* runBatchPipeline: under the lock, create the pipeline context and
\* store its CancelFunc; then emit(BotThinking), before the transcription
BpSetup(w) ==
    /\ pc[w] = "bpSetup"
    /\ pipelineCancel' = Tok("p", w)
    /\ EmitSend("BotThinking", {w})
    /\ Goto(w, "bpStt")
    /\ UNCHANGED << wUnch, flagsV, responseCancel, ttsCancel, sttGeneration,
                    cancelled, envV, sess, loc, ghost >>

\* runBatchPipeline: Transcribe returns a transcript or an error; an error
\* is reported when the pipeline context is not cancelled, the empty
\* transcript ends the turn.
BpStt(w, failed, transcript) ==
    /\ pc[w] = "bpStt"
    /\ loc[w].hung => (failed /\ Done(Tok("p", w)))
    /\ IF failed /\ ~Done(Tok("p", w))
       THEN /\ Goto(w, "bpErr")
            /\ UNCHANGED << loc, cancelled >>
       ELSE IF failed \/ transcript = << >>
       THEN Return(w)
       ELSE /\ Goto(w, "bpGate")
            /\ loc' = [loc EXCEPT ![w].tr = transcript]
            /\ UNCHANGED cancelled
    /\ UNCHANGED << wUnch, flagsV, handlesV, sttGeneration, chanV, envV,
                    sess, ghost >>

\* runBatchPipeline: emit(ErrorEvent) and return
BpErr(w) ==
    /\ pc[w] = "bpErr"
    /\ EmitSend("Error", {w})
    /\ Return(w)
    /\ UNCHANGED << wUnch, flagsV, handlesV, sttGeneration, envV, sess,
                    ghost >>

\* runBatchPipeline: the min-words gate, read under the lock
BpGate(w) ==
    /\ pc[w] = "bpGate"
    /\ IF isSpeaking /\ minWords > 1
       THEN IF countWords(loc[w].tr) < minWords
            THEN Return(w)
            ELSE /\ Goto(w, "iLock")
                 /\ loc' = [loc EXCEPT ![w].origin = "gate"]
                 /\ UNCHANGED cancelled
       ELSE /\ Goto(w, "bpFinal")
            /\ UNCHANGED << loc, cancelled >>
    /\ UNCHANGED << wUnch, flagsV, handlesV, sttGeneration, chanV, envV,
                    sess, ghost >>

\* a runBatchPipeline that does not record the user's message
BpFinalNoUserMessage(w) ==
    /\ pc[w] = "bpFinal"
    /\ EmitSend("TranscriptFinal", {w})
    /\ loc' = [loc EXCEPT ![w].tr = << >>]
    /\ Goto(w, "rSetup")
    /\ UNCHANGED << wUnch, flagsV, handlesV, sttGeneration, cancelled, envV,
                    sess, ghost >>

\* runBatchPipeline: emit(TranscriptFinal), session.AddMessage("user")
BpFinal(w) ==
    /\ pc[w] = "bpFinal"
    /\ EmitSend("TranscriptFinal", {w})
    /\ sess' = AddMessage(sess, MaxMessages, [role |-> "user", turn |-> w])
    /\ loc' = [loc EXCEPT ![w].tr = << >>]
    /\ Goto(w, "rSetup")
    /\ UNCHANGED << wUnch, flagsV, handlesV, sttGeneration, cancelled, envV,
                    ghost >>

\* runLLMAndTTS: under the lock, call the stored response and TTS
\* CancelFuncs, store the new response CancelFunc, set isThinking; then
\* emit(BotThinking)
RSetup(w) ==
    /\ pc[w] = "rSetup"
    /\ cancelled' = CancelAll({responseCancel, ttsCancel} \ {NoTok})
    /\ responseCancel' = Tok("r", w)
    /\ isThinking' = TRUE
    /\ EmitSend("BotThinking", {w})
    /\ Goto(w, "llm")
    /\ UNCHANGED << wUnch, isSpeaking, userInterrupting, pipelineCancel,
                    ttsCancel, sttGeneration, envV, sess, loc, ghost >>

\* a runLLMAndTTS that does not look at the error of GenerateResponse
LLMReturnErrorIgnored(w, failed) ==
    /\ pc[w] = "llm"
    /\ loc[w].hung => (failed /\ Done(Tok("r", w)))
    /\ Goto(w, "addAsst")
    /\ ghost' = [ghost EXCEPT
                    !.llmFailed = @ \cup
                        IF failed /\ ~Done(Tok("r", w)) THEN {w} ELSE {},
                    !.llmOk = @ \cup IF failed THEN {} ELSE {w}]
    /\ UNCHANGED << wUnch, flagsV, handlesV, sttGeneration, chanV, envV,
                    sess, loc, cancelled >>

\* runLLMAndTTS: GenerateResponse returns; an error is reported when the
\* response context is not cancelled and ends the turn; a response is
\* used without looking at the context.
LLMReturn(w, failed) ==
    /\ pc[w] = "llm"
    /\ loc[w].hung => (failed /\ Done(Tok("r", w)))
    /\ IF failed
       THEN IF Done(Tok("r", w))
            THEN /\ Return(w)
                 /\ UNCHANGED ghost
            ELSE /\ Goto(w, "llmErr")
                 /\ ghost' = [ghost EXCEPT !.llmFailed = @ \cup {w}]
                 /\ UNCHANGED << loc, cancelled >>
       ELSE /\ Goto(w, "addAsst")
            /\ ghost' = [ghost EXCEPT !.llmOk = @ \cup {w}]
            /\ UNCHANGED << loc, cancelled >>
    /\ UNCHANGED << wUnch, flagsV, handlesV, sttGeneration, chanV, envV,
                    sess >>

\* runLLMAndTTS: emit(ErrorEvent) and return
LlmErr(w) ==
    /\ pc[w] = "llmErr"
    /\ EmitSend("Error", {w})
    /\ Return(w)
    /\ UNCHANGED << wUnch, flagsV, handlesV, sttGeneration, envV, sess,
                    ghost >>

\* runLLMAndTTS: session.AddMessage("assistant"), emit(BotResponse)
AddAsst(w) ==
    /\ pc[w] = "addAsst"
    /\ sess' = AddMessage(sess, MaxMessages, [role |-> "assistant", turn |-> w])
    /\ EmitSend("BotResponse", {w})
    /\ Goto(w, "rSpeak")
    /\ UNCHANGED << wUnch, flagsV, handlesV, sttGeneration, cancelled, envV,
                    loc, ghost >>

\* runLLMAndTTS: under the lock, isThinking=false, isSpeaking=true,
\* vad.Reset(), store the TTS CancelFunc; then emit(BotSpeaking)
RSpeak(w) ==
    /\ pc[w] = "rSpeak"
    /\ isThinking' = FALSE
    /\ isSpeaking' = TRUE
    /\ vadSpeaking' = FALSE
    /\ ttsCancel' = Tok("t", w)
    /\ EmitSend("BotSpeaking", {w})
    /\ Goto(w, "tts")
    /\ UNCHANGED << wUnch, userInterrupting, pipelineCancel, responseCancel,
                    sttGeneration, cancelled, lastAudioSent, sess,
                    loc, ghost >>

\* The chunk callback of SynthesizeStream up to the gate of
\* emit(AudioChunk): return the context error when the TTS context is done
\* (the provider then returns it); otherwise set lastAudioSentAt, record
\* the chunk as played and, under the lock, drop the chunk when ms.ctx is
\* done, the bot is not speaking or the user is interrupting.
TtsChunk(w) ==
    /\ pc[w] = "tts"
    /\ loc[w].n < MaxChunks
    /\ loc[w].hung => Done(Tok("t", w))
    /\ IF Done(Tok("t", w))
       THEN /\ Goto(w, "rEnd")
            /\ UNCHANGED << loc, lastAudioSent >>
       ELSE /\ Goto(w, IF rootCancelled \/ ~isSpeaking \/ userInterrupting
                       THEN "tts" ELSE "cbSend")
            /\ loc' = [loc EXCEPT ![w].n = @ + 1]
            /\ lastAudioSent' = TRUE
    /\ UNCHANGED << wUnch, flagsV, handlesV, sttGeneration, cancelled, chanV,
                    vadSpeaking, sess, ghost >>

\* emit(AudioChunk), the non-blocking send
CbSend(w, giveUp) ==
    /\ pc[w] = "cbSend"
    /\ EmitSelect("AudioChunk", {w}, giveUp)
    /\ LET sent == /\ ~eventsClosed /\ ~(rootCancelled /\ giveUp)
                   /\ Len(events) < QueueCap
       IN  ghost' = [ghost EXCEPT
                       !.lateAudio = @ \/ (w \in ghost.intrd /\ sent),
                       !.staleAudio = @ \/
                           (sent /\ (~isSpeaking \/ userInterrupting))]
    /\ Goto(w, "tts")
    /\ UNCHANGED << wUnch, flagsV, handlesV, sttGeneration, cancelled, envV,
                    sess, loc >>

\* SynthesizeStream returns: without error once every chunk is delivered,
\* with an error at any time; the error is reported when the TTS context
\* is not cancelled.
TtsReturn(w, failed) ==
    /\ pc[w] = "tts"
    /\ loc[w].hung => (failed /\ Done(Tok("t", w)))
    /\ ~failed => loc[w].n = MaxChunks
    /\ Goto(w, IF failed /\ ~Done(Tok("t", w)) THEN "ttsErr" ELSE "rEnd")
    /\ UNCHANGED << wUnch, flagsV, handlesV, sttGeneration, cancelled, chanV,
                    envV, sess, loc, ghost >>

TtsErr(w) ==
    /\ pc[w] = "ttsErr"
    /\ EmitSend("Error", {w})
    /\ Goto(w, "rEnd")
    /\ UNCHANGED << wUnch, flagsV, handlesV, sttGeneration, cancelled, envV,
                    sess, loc, ghost >>

\* runLLMAndTTS: under the lock, isSpeaking=false, ttsCancel=nil; return
REnd(w) ==
    /\ pc[w] = "rEnd"
    /\ isSpeaking' = FALSE
    /\ ttsCancel' = NoTok
    /\ ghost' = [ghost EXCEPT !.swallowed = FALSE]
    /\ Return(w)
    /\ UNCHANGED << wUnch, isThinking, userInterrupting, pipelineCancel,
                    responseCancel, sttGeneration, chanV, envV, sess >>

Worker(w) ==
    \/ \E b \in BOOLEAN : TimerFire(w, b)
    \/ BpSetup(w)
    \/ \E f \in BOOLEAN, t \in Transcripts : BpStt(w, f, t)
    \/ BpErr(w) \/ BpGate(w) \/ BpFinal(w)
    \/ RSetup(w)
    \/ \E f \in BOOLEAN : LLMReturn(w, f)
    \/ LlmErr(w) \/ AddAsst(w) \/ RSpeak(w)
    \/ TtsChunk(w)
    \/ \E g \in BOOLEAN : CbSend(w, g)
    \/ \E f \in BOOLEAN : TtsReturn(w, f)
    \/ TtsErr(w) \/ REnd(w)

WriteStep(maxOps, ws) ==
    \/ \E e, r \in BOOLEAN : WriteSpeechStart(e, r, maxOps)
    \/ SSBarge \/ SSEmit
    \/ WriteSpeechEnd(maxOps, ws)

Next ==
    /\ ~panicked
    /\ \/ WriteStep(MaxOps, Workers)
       \/ \E w \in Workers : Worker(w)
       \/ \E p \in Procs : internalInterrupt(p)
       \/ Receive

Spec == Init /\ [][Next]_vars

\* Write and Close, with one pipeline worker
NextClose ==
    /\ ~panicked
    /\ \/ WriteStep(LifeOps, {1})
       \/ ApiClose \/ ClCancel \/ ClClose
       \/ \E w \in Workers : Worker(w)
       \/ \E p \in Procs : internalInterrupt(p)
       \/ Receive

SpecClose == Init /\ [][NextClose]_vars

\* Write, and Interrupt called once from a second goroutine, with one
\* pipeline worker
NextUi ==
    /\ ~panicked
    /\ \/ WriteStep(LifeOps, {1})
       \/ UiInterrupt
       \/ \E w \in Workers : Worker(w)
       \/ \E p \in Procs : internalInterrupt(p)
       \/ Receive

SpecUi == Init /\ [][NextUi]_vars

\* one turn with one pipeline worker, Interrupt called once from a second
\* goroutine, and a consumer whose receptions are compared
NextOrder ==
    /\ ~panicked
    /\ \/ WriteStep(OrderOps, {1})
       \/ UiInterrupt
       \/ \E w \in Workers : Worker(w)
       \/ \E p \in Procs : internalInterrupt(p)
       \/ ReceiveObserved

SpecOrder == Init /\ [][NextOrder]_vars

\* Write with one pipeline worker, and Interrupt called repeatedly from a
\* second goroutine
NextTwice ==
    /\ ~panicked
    /\ \/ WriteStep(OrderOps, {1})
       \/ UiInterruptCounted
       \/ \E w \in Workers : Worker(w)
       \/ \E p \in Procs : internalInterrupt(p)
       \/ Receive

SpecTwice == Init /\ [][NextTwice]_vars

\* Write with a streaming STT provider and one pipeline worker (the batch
\* path runs when StreamTranscribe failed)
NextStream ==
    /\ ~panicked
    /\ \/ WriteStep(StreamOps, {1})
       \/ \E f \in BOOLEAN : SttOpen(f)
       \/ SttStore
       \/ \E f \in BOOLEAN, t \in Transcripts : StreamCallback(f, t)
       \/ CbFinal \/ CbPartial
       \/ \E w \in Workers : Worker(w)
       \/ \E p \in Procs : internalInterrupt(p)
       \/ Receive

InitStream == Start(TRUE) /\ Aside({})

SpecStream == InitStream /\ [][NextStream]_vars

\* ------------------------------------------- the ConversationSession alone
\* messages: a role and a content (the number that names a turn)
Msgs == [role : {"user", "assistant"}, turn : 1..2]

\* session.AddMessage(role, content) on a session with MaxMessages = cs.max
SessAddMessage(m) ==
    /\ Len(cs.added) < MaxAdds
    /\ sess' = AddMessage(sess, cs.max, m)
    /\ cs' = [cs EXCEPT !.added = Append(@, m),
                        !.lastUser = IF m.role = "user" THEN m.turn ELSE @,
                        !.lastAssistant =
                            IF m.role = "assistant" THEN m.turn ELSE @]
    /\ UNCHANGED << minWords, two, vad, au, lat, pa, stt, flagsV, handlesV, sttGeneration, cancelled,
                    lifeV, chanV, envV, ttsAborted, pc, loc, ops, ghost >>

\* session.GetContextCopy(): a copy of Context
GetContextCopy ==
    /\ cs' = [cs EXCEPT !.copy = sess, !.copied = TRUE, !.n = Len(cs.added),
                        !.shared = FALSE]
    /\ UNCHANGED << minWords, two, vad, au, lat, pa, stt, flagsV, handlesV, sttGeneration, cancelled,
                    lifeV, chanV, envV, ttsAborted, sess, pc, loc, ops, ghost >>

\* a fresh session of any capacity, used on its own
InitSession ==
    /\ Start(FALSE) /\ Aside({"cs"})
    /\ cs \in {CsInit(m) : m \in 0..MaxCtx}

NextSession ==
    \/ \E m \in Msgs : SessAddMessage(m)
    \/ GetContextCopy

SpecSession == InitSession /\ [][NextSession]_vars

\* ---------------------------------------------------------- properties
UserMsg(w) == [role |-> "user", turn |-> w]
AsstMsg(w) == [role |-> "assistant", turn |-> w]
InSession(m) == \E i \in 1..Len(sess) : sess[i] = m

\* worker w is between the creation of its pipeline context and its return
InPipeline(w) ==
    \/ pc[w] \in {"bpStt", "bpErr", "bpGate", "bpFinal", "rSetup", "llm",
                  "llmErr", "addAsst", "rSpeak", "tts", "cbSend", "ttsErr",
                  "rEnd"}
    \/ pc[w] \in {"iLock", "iReenq", "iEmit"} /\ loc[w].origin = "gate"

\* C1: once an Interrupted event has been enqueued for a turn, no
\* AudioChunk of that turn's TTS callback is enqueued after it.
C1_NoAudioAfterInterrupted == ~ghost.lateAudio

\* C2: while the stream is not closed no control event passed to emit is
\* dropped; only AudioChunk events are.
C2_ControlDelivered == "control" \notin lost

\* C3: after the first Close has returned, a later Write does not panic.
C3_WriteAfterCloseSafe ==
    eventsClosed =>
        ~(/\ panicked /\ pc[Api] = "iReenq"
          /\ loc[Api].origin \in {"write", "barge"})

\* C4: is_speaking and is_thinking are never both true.
C4_SpeakingXorThinking == ~(isSpeaking /\ isThinking)

\* C5: at most one pipeline worker runs under a pipeline token that has
\* not been cancelled.
C5_OnePipeline ==
    Cardinality({w \in Workers :
                    InPipeline(w) /\ Tok("p", w) \notin cancelled}) <= 1

\* the Write that found a barge-in has returned
BargeReturned == pc[Api] = "idle" /\ loc[Api].origin = "barge"

C7_BargeInNotMissed == ~ghost.missedBarge

\* C8: with min_words_to_interrupt > 1 and the bot speaking, the turn is
\* not interrupted before a transcript with enough words has arrived.
C8_NoInterruptBelowMinWords == ~ghost.earlyInterrupt

\* C9: a turn cancelled while its LLM call was in flight emits no
\* BotResponse and no AudioChunk.
C9_NoResponseAfterCancel ==
    \A w \in ghost.cancelledInLLM :
        tlog[w] \cap {"BotResponse", "AudioChunk"} = {}

\* C10: a turn whose LLM call failed with a non-cancellation error (its
\* response context is not cancelled when runLLMAndTTS examines the error)
\* passes an Error event to emit and returns, passes no BotResponse, BotSpeaking
\* or AudioChunk to emit, and leaves its user message and no assistant
\* message in the session.
C10_LLMFailure ==
    \A w \in ghost.llmFailed :
        /\ pc[w] \in {"llmErr", "done"}
        /\ pc[w] = "done" => "Error" \in tlog[w]
        /\ tlog[w] \cap {"BotResponse", "BotSpeaking", "AudioChunk"} = {}
        /\ InSession(UserMsg(w))
        /\ ~InSession(AsstMsg(w))

\* a turn started after the failed one has returned answers and speaks
C10_Witness ==
    \E w \in ghost.llmFailed, v \in ghost.afterFail :
        /\ pc[w] = "done"
        /\ "Error" \in tlog[w]
        /\ InSession(AsstMsg(v))
        /\ {"BotResponse", "AudioChunk"} \subseteq tlog[v]

\* no goroutine of the stream is running: Write has returned and every
\* worker is idle or has returned
Quiet == pc[Api] = "idle" /\ Running = {}

\* C11: once a worker whose LLM call failed with a non-cancellation error
\* has returned and nothing else runs, is_thinking and is_speaking are
\* both false.
C11_IdleAfterError ==
    (Quiet /\ \E w \in ghost.llmFailed : pc[w] = "done")
        => ~isThinking /\ ~isSpeaking

\* C12: BotThinking is passed to emit for a turn only after that turn's
\* TranscriptFinal.
C12_TranscriptBeforeThinking ==
    \A w \in Workers :
        "BotThinking" \in tlog[w] => "TranscriptFinal" \in tlog[w]

\* C13: the consumer receives the bot events of one turn in the order the
\* turn emitted them: BotThinking, BotResponse, BotSpeaking, AudioChunk.
C13_ConsumerOrder == ~ghost.misordered

\* C14: two Interrupt() calls made one after the other, with no worker
\* running and no Write in between, emit at most one Interrupted.
C14_InterruptIdempotent ==
    (ghost.ui.calls = 2 /\ ghost.ui.quiet) => ghost.ui.intr <= 1

\* C15: no Interrupted is enqueued by the internalInterrupt of a SpeechStart
\* or of a batch-pipeline start that found the bot neither speaking nor
\* thinking and no other worker running.
C15_NoIdleInterrupted == ~ghost.idleInterrupt

\* C16: an AudioChunk is enqueued only while is_speaking is true and
\* user_interrupting is false.
C16_AudioOnlyWhileSpeaking == ~ghost.staleAudio

\* C17: once the streaming STT callback has emitted TranscriptFinal for a
\* transcript that was neither stale nor gated, appended the user message
\* and returned, an LLM -> TTS stage has been started (a worker is past
\* the hold or has emitted BotThinking).
C17_FinalLaunchesLLM ==
    (ghost.sttFinal /\ pc[SttCb] = "idle")
        => \E w \in Workers :
              \/ pc[w] \notin {"idle", "hold", "done"}
              \/ "BotThinking" \in tlog[w]

\* C18: after a SpeechEnd that found the streaming STT session live, the
\* session's input channel has been closed exactly once.
C18_SinkClosedOnSpeechEnd ==
    (stt.live /\ stt.ended) => stt.closes = 1

\* C19: on a fresh session of capacity max, GetContextCopy after N
\* AddMessage calls returns those N messages in order when N <= max and
\* the last max of them in order when N > max.
C19_ContextCopy ==
    cs.copied =>
        cs.copy = IF cs.n <= cs.max THEN SubSeq(cs.added, 1, cs.n)
                  ELSE SubSeq(cs.added, cs.n - cs.max + 1, cs.n)

\* a copy taken after more AddMessage calls than the capacity, which is
\* shorter than what was added and not empty
C19_Witness ==
    /\ cs.copied
    /\ cs.max >= 2 /\ cs.n > cs.max
    /\ Len(cs.copy) = cs.max
    /\ cs.copy = SubSeq(cs.added, cs.n - cs.max + 1, cs.n)
    /\ cs.copy[1] # cs.added[1]

\* the positions of message m in the session
Where(m) == {i \in 1..Len(sess) : sess[i] = m}

\* C20: a turn that has passed TranscriptFinal to emit has appended its
\* user message; an assistant message of a turn is in the session only
\* when the turn's LLM call returned a response, and then after the turn's
\* user message; no turn adds two user or two assistant messages, and a
\* turn that ran to the end of its TTS stage has added exactly one user
\* message followed by exactly one assistant message.
C20_PairedMessages ==
    \A w \in Workers :
        /\ ("TranscriptFinal" \in tlog[w] /\ pc[w] # "bpFinal")
              => Where(UserMsg(w)) # {}
        /\ Cardinality(Where(UserMsg(w))) <= 1
        /\ Cardinality(Where(AsstMsg(w))) <= 1
        /\ Where(AsstMsg(w)) # {}
              => /\ w \in ghost.llmOk
                 /\ \E i \in Where(UserMsg(w)) :
                       \A j \in Where(AsstMsg(w)) : i < j
        /\ (pc[w] = "done" /\ "BotSpeaking" \in tlog[w])
              => /\ Cardinality(Where(UserMsg(w))) = 1
                 /\ Cardinality(Where(AsstMsg(w))) = 1

\* two turns have run to the end, and the second one's user message was
\* appended before the first one's assistant message
C20_Witness ==
    /\ \A w \in Workers : pc[w] = "done" /\ "BotSpeaking" \in tlog[w]
    /\ \E i \in Where(UserMsg(2)), j \in Where(AsstMsg(1)) : i < j

\* ---------------------------------------------------- the RMSVAD alone
\* RMS of the chunks given to Process, thresholds, silence limits and
\* SetMinConfirmed values of the instances
VadLevels == {0, 90, 3500}
VadThresholds == {80, 200}
VadSilenceLimits == {0, 2}
VadMinConfirmed == {1, 2}

\* Process on one chunk, given to src and to cln dt time units after the
\* call before
VadProcess(rms, dt) ==
    /\ vad.n < MaxFrames
    /\ LET now == vad.now + dt
           s == Process(vad.src, rms, now)
           c == Process(vad.cln, rms, now)
       IN  vad' = [vad EXCEPT
                     !.src = s.v, !.cln = c.v, !.now = now, !.n = @ + 1,
                     !.hist = Append(@,
                         [above |-> rms > EffectiveThreshold(vad.src, rms),
                          t |-> now, ev |-> s.ev]),
                     !.diverged = @ \/ s.ev # c.ev]
    /\ UNCHANGED << minWords, two, cs, au, lat, pa, stt, flagsV, handlesV,
                    sttGeneration, cancelled, lifeV, chanV, envV, ttsAborted,
                    sess, pc, loc, ops, ghost >>

\* Reset on both instances
VadReset ==
    /\ vad.n < MaxFrames
    /\ vad.hist # << >>
    /\ vad' = [vad EXCEPT !.src = Reset(@), !.cln = Reset(@), !.n = @ + 1,
                          !.hist = << >>]
    /\ UNCHANGED << minWords, two, cs, au, lat, pa, stt, flagsV, handlesV,
                    sttGeneration, cancelled, lifeV, chanV, envV, ttsAborted,
                    sess, pc, loc, ops, ghost >>

InitVad ==
    /\ Start(FALSE) /\ Aside({"vad"})
    /\ vad \in {VadInit(th, sl, m) : th \in VadThresholds,
                                     sl \in VadSilenceLimits,
                                     m \in VadMinConfirmed}

NextVad ==
    \/ \E rms \in VadLevels, dt \in {1, 2} : VadProcess(rms, dt)
    \/ VadReset

SpecVad == InitVad /\ [][NextVad]_vars

\* C25: an RMSVAD obtained by Clone() answers every chunk of every input
\* sequence with the same event as the instance it was cloned from, which
\* has the same settings and fresh runtime state.
C25_CloneSameEvents == ~vad.diverged

\* C26: Process returns SpeechStart only when the instance is not speaking
\* and the last min_confirmed chunks were all above the effective
\* threshold; it returns SpeechEnd only when the instance is speaking, on
\* a chunk that ends a run of chunks at or below the threshold which has
\* lasted silence_limit; between two Resets SpeechStart and SpeechEnd
\* alternate, SpeechStart first.
C26_ProcessEvents ==
    LET h == vad.hist
        n == Len(h)
        m == vad.src.minConfirmed
        edges == {i \in 1..(n - 1) : h[i].ev \in {"SPEECH_START", "SPEECH_END"}}
        prev == IF edges = {} THEN "SPEECH_END"
                ELSE h[CHOOSE i \in edges : \A j \in edges : j <= i].ev
    IN  n > 0 =>
          /\ h[n].ev = "SPEECH_START" =>
                /\ prev = "SPEECH_END"
                /\ n >= m
                /\ \A i \in (n - m + 1)..n : h[i].above
          /\ h[n].ev = "SPEECH_END" =>
                /\ prev = "SPEECH_START"
                /\ \E j \in 1..n :
                      /\ \A i \in j..n : ~h[i].above
                      /\ h[n].t - h[j].t >= vad.src.silenceLimit
                      /\ \A i \in edges : i < j

\* a SpeechEnd after a silence that an above-threshold chunk had
\* interrupted and that then lasted silence_limit again
C26_Witness ==
    LET h == vad.hist
    IN  /\ Len(h) = 6
        /\ vad.src.silenceLimit = 2 /\ vad.src.minConfirmed = 2
        /\ h[2].ev = "SPEECH_START"
        /\ ~h[3].above /\ h[3].ev = "SILENCE"
        /\ h[4].above
        /\ h[6].ev = "SPEECH_END"

\* ------------------------------------------------ Write, the audio side
\* chunks given to Write: the empty chunk, and chunks of 100000 bytes that
\* are digital silence, noise below the threshold, or speech
ChunkLen == 100000
Chunks ==
    {[len |-> 0, level |-> 0]}
        \cup [len : {ChunkLen}, level : {0, 50, 500}]
AuThresholds == {100}
AuSilenceLimits == {0, 1}
AuMinConfirmed == {1, 2}

\* RemoveEchoRealtime: a chunk correlated with the played audio is muted,
\* any other chunk is copied
RemoveEchoRealtime(chunk, mute) ==
    IF mute THEN [chunk EXCEPT !.level = 0] ELSE chunk

\* Write before the VAD: with the bot speaking require 3 frames, less than
\* 250 ms (5 units) after lastAudioSentAt use the fixed threshold 0.25
AdjustVAD(v, speaking, recent) ==
    IF speaking
    THEN IF v.minConfirmed < 3 THEN SetMinConfirmed(v, 3) ELSE v
    ELSE IF recent THEN SetThreshold(SetAdaptiveMode(v, FALSE), 2500)
    ELSE v

\* the deferred function of Write
RestoreVAD(v, original) ==
    SetAdaptiveMode(
        SetMinConfirmed(SetThreshold(v, original.threshold),
                        original.minConfirmed),
        TRUE)

\* startStreamingSTT when StreamTranscribe succeeds: store the channel,
\* and move a non-empty pre-roll buffer to lastUserAudio and to the channel
StartStreamingSTT(a) ==
    IF a.buf > 0
    THEN [a EXCEPT !.sttChan = TRUE, !.user = a.buf, !.sent = @ + a.buf,
                   !.buf = 0, !.seq = << >>]
    ELSE [a EXCEPT !.sttChan = TRUE]

\* Write, the branch of the VAD's event.  SpeechStart, not swallowed:
\* lastUserAudio = nil when the bot does not speak, internalInterrupt
\* (ms.sttChan = nil), startStreamingSTT with a streaming provider.
\* SpeechEnd: with a live STT input set ms.sttChan = nil, otherwise
\* capture and reset the buffer for the speech-end hold.
EventBranch(a, ev, swallowed, speaking, sttFailed) ==
    IF ev = "SPEECH_START" /\ ~swallowed
    THEN LET b == [a EXCEPT !.user = IF speaking THEN @ ELSE 0,
                            !.sttChan = FALSE]
         IN  IF a.streaming /\ ~sttFailed THEN StartStreamingSTT(b) ELSE b
    ELSE IF ev = "SPEECH_END"
    THEN IF a.sttChan THEN [a EXCEPT !.sttChan = FALSE]
         ELSE [a EXCEPT !.holds = Append(@, [buf |-> a.buf,
                                             resumed |-> FALSE,
                                             seq |-> a.seq]),
                        !.buf = 0, !.seq = << >>]
    ELSE a

\* the event types the branch passes to emit
EventEmits(a, ev, swallowed, sttFailed) ==
    IF ev = "SPEECH_START" /\ ~swallowed
    THEN {"UserSpeaking"} \cup
         (IF a.streaming /\ sttFailed THEN {"Error"} ELSE {})
    ELSE IF ev = "SPEECH_END" THEN {"UserStopped"}
    ELSE {}

\* data[len(data)-keep:] on the chunks of the buffer: drop its first d bytes
RECURSIVE DropBytes(_, _)
DropBytes(s, d) ==
    IF d <= 0 \/ s = << >> THEN s
    ELSE IF Head(s).len <= d THEN DropBytes(Tail(s), d - Head(s).len)
    ELSE << [Head(s) EXCEPT !.len = @ - d] >> \o Tail(s)

\* audioBuf.Write(chunk) on the chunks of the buffer
WriteChunk(a, len) ==
    IF len > 0 THEN Append(a.seq, [id |-> a.n + 1, len |-> len]) ELSE a.seq

\* a last part of Write that does not look at the echo classification
ForwardEchoToo(a, len, isEcho, isUserSpeaking) ==
    LET f == a.sttChan
        b == [a EXCEPT !.user = IF f THEN @ + len ELSE @,
                       !.sent = IF f THEN @ + len ELSE @,
                       !.buf = @ + len, !.seq = WriteChunk(a, len)]
    IN  IF ~isUserSpeaking /\ b.buf > 176400
        THEN [b EXCEPT !.buf = 132300,
                       !.seq = DropBytes(@, b.buf - 132300)]
        ELSE b

\* Write, the last part: a chunk that is not echo is appended to
\* lastUserAudio and offered to the STT input when ms.sttChan is non-nil,
\* and is appended to audioBuf, which is cut to its last 132300 bytes when
\* the VAD is not speaking and it holds more than 176400
Forward(a, len, isEcho, isUserSpeaking) ==
    LET f == a.sttChan /\ ~isEcho
        b == [a EXCEPT !.user = IF f THEN @ + len ELSE @,
                       !.sent = IF f THEN @ + len ELSE @,
                       !.buf = IF isEcho THEN @ ELSE @ + len,
                       !.seq = IF isEcho THEN @ ELSE WriteChunk(a, len)]
    IN  IF ~isEcho /\ ~isUserSpeaking /\ b.buf > 176400
        THEN [b EXCEPT !.buf = 132300,
                       !.seq = DropBytes(@, b.buf - 132300)]
        ELSE b

\* Write(chunk), one time unit after the call before.  mute: what
\* RemoveEchoRealtime finds; ssEcho, corr: what IsEcho answers in the
\* SpeechStart branch and in the last part (true only with played audio
\* and a non-empty input); sttFailed: StreamTranscribe fails.
AuWrite(chunk, mute, ssEcho, corr, sttFailed) ==
    /\ au.n < MaxAudioOps
    /\ mute => au.played /\ chunk.level > 0
    /\ ssEcho => au.played /\ au.buf + chunk.len > 0
    /\ LET now == au.now + 1
           recent == au.sentAt # NoTime /\ now - au.sentAt < 5
           tail == au.sentAt # NoTime /\ now - au.sentAt < 3
           cleaned == RemoveEchoRealtime(chunk, mute)
           energy == calculateRMS(cleaned) = 0
           r == Process(AdjustVAD(au.vad, isSpeaking, recent),
                        calculateRMS(cleaned), now)
           swallowed == ssEcho \/ (isSpeaking /\ tail)
           b == EventBranch(au, r.ev, swallowed, isSpeaking, sttFailed)
           isEcho == corr \/ energy
           c == Forward(b, cleaned.len, isEcho, r.v.isSpeaking)
           d == [c EXCEPT !.vad = RestoreVAD(r.v, au.vad), !.now = now,
                          !.n = @ + 1,
                          !.holds = IF r.ev = "SPEECH_START"
                                    THEN [i \in DOMAIN @ |->
                                            [@[i] EXCEPT !.resumed = TRUE]]
                                    ELSE @]
       IN  /\ corr => au.played /\ b.buf + chunk.len > 0
           /\ au' = [d EXCEPT !.last =
                       [len |-> chunk.len, echo |-> isEcho, ev |-> r.ev,
                        emitted |-> EventEmits(au, r.ev, swallowed, sttFailed),
                        pre |-> AuState(au), mid |-> AuState(b),
                        post |-> AuState(d), chan |-> b.sttChan,
                        trimmed |-> c.buf < b.buf +
                                    (IF isEcho THEN 0 ELSE cleaned.len)]]
    /\ UNCHANGED << minWords, two, cs, vad, lat, pa, stt, flagsV, handlesV,
                    sttGeneration, cancelled, lifeV, chanV, envV, ttsAborted,
                    sess, pc, loc, ops, ghost >>

\* RecordPlayedOutput(chunk) with a non-empty chunk
AuRecordPlayedOutput ==
    /\ au.n < MaxAudioOps
    /\ ~au.played
    /\ au' = [au EXCEPT !.played = TRUE, !.n = @ + 1]
    /\ UNCHANGED << minWords, two, cs, vad, lat, pa, stt, flagsV, handlesV,
                    sttGeneration, cancelled, lifeV, chanV, envV, ttsAborted,
                    sess, pc, loc, ops, ghost >>

\* NotifyAudioPlayed()
AuNotifyAudioPlayed ==
    /\ au.n < MaxAudioOps
    /\ au' = [au EXCEPT !.sentAt = au.now, !.n = @ + 1]
    /\ UNCHANGED << minWords, two, cs, vad, lat, pa, stt, flagsV, handlesV,
                    sttGeneration, cancelled, lifeV, chanV, envV, ttsAborted,
                    sess, pc, loc, ops, ghost >>

\* the goroutine of a speech-end hold when its timer fires: reinsert the
\* captured buffer when the VAD reports speaking, otherwise
\* runBatchPipeline, which stores the buffer as lastUserAudio
AuTimerFire ==
    /\ au.holds # << >>
    /\ au' = IF au.vad.isSpeaking
             THEN [au EXCEPT !.holds = Tail(@),
                             !.buf = @ + Head(au.holds).buf,
                             !.seq = @ \o Head(au.holds).seq,
                             !.reins = TRUE,
                             !.fire = [any |-> TRUE,
                                       resumed |-> Head(au.holds).resumed,
                                       ran |-> FALSE, reinserted |-> TRUE]]
             ELSE [au EXCEPT !.holds = Tail(@),
                             !.user = Head(au.holds).buf,
                             !.batches = @ + 1,
                             !.handed = Head(au.holds).seq,
                             !.fire = [any |-> TRUE,
                                       resumed |-> Head(au.holds).resumed,
                                       ran |-> TRUE, reinserted |-> FALSE]]
    /\ UNCHANGED << minWords, two, cs, vad, lat, pa, stt, flagsV, handlesV,
                    sttGeneration, cancelled, lifeV, chanV, envV, ttsAborted,
                    sess, pc, loc, ops, ghost >>

InitAudio ==
    /\ Start(FALSE) /\ Aside({"au"})
    /\ au \in {AuInit(th, sl, m, s) : th \in AuThresholds,
                                      sl \in AuSilenceLimits,
                                      m \in AuMinConfirmed, s \in BOOLEAN}

NextAudio ==
    \/ \E c \in Chunks, mute, ssEcho, corr, f \in BOOLEAN :
           AuWrite(c, mute, ssEcho, corr, f)
    \/ AuRecordPlayedOutput
    \/ AuNotifyAudioPlayed
    \/ AuTimerFire

SpecAudio == InitAudio /\ [][NextAudio]_vars

\* C21: a Write with a zero-length chunk is a no-op: it passes no event to
\* emit and leaves the VAD's speaking flag, frame count, silence timer and
\* noise floor, the buffers and the turn state as they were.
C21_EmptyWriteNoOp ==
    au.last.len = 0 =>
        LET p == au.last.pre
            q == au.last.post
        IN  /\ au.last.emitted = {}
            /\ q.vad.isSpeaking = p.vad.isSpeaking
            /\ q.vad.consecutiveFrames = p.vad.consecutiveFrames
            /\ q.vad.silenceStart = p.vad.silenceStart
            /\ q.vad.noiseFloor = p.vad.noiseFloor
            /\ q.buf = p.buf /\ q.user = p.user
            /\ q.sttChan = p.sttChan /\ q.holds = p.holds

\* C22: when a Write returns while the VAD reports not speaking, the
\* pre-roll buffer holds at most 176400 bytes; a Write that cuts the buffer
\* leaves 132300 bytes, and does so only while the VAD reports not
\* speaking.
C22_PreRollBound ==
    au.last.len >= 0 =>
        /\ ~au.last.post.vad.isSpeaking => au.last.post.buf <= 176400
        /\ au.last.trimmed =>
              au.last.post.buf = 132300 /\ ~au.last.post.vad.isSpeaking

\* C23 as stated: a chunk classified as echo is not offered to the STT
\* input and is appended neither to the captured user audio nor to the
\* pre-roll buffer; any other chunk is appended to both buffers, and
\* offered to the STT input when one is live.
C23_EchoAsStated ==
    au.last.len >= 0 =>
        LET p == au.last.mid
            q == au.last.post
            len == au.last.len
        IN  IF au.last.echo
            THEN q.sent = p.sent /\ q.user = p.user /\ q.buf = p.buf
            ELSE /\ q.user = p.user + len
                 /\ au.last.trimmed \/ q.buf = p.buf + len
                 /\ au.last.chan => q.sent = p.sent + len

\* C23 amended: a chunk classified as echo is not offered to the STT input
\* and is appended neither to the captured user audio nor to the pre-roll
\* buffer; any other chunk is appended to the pre-roll buffer (which may
\* then be cut to 132300 bytes) and, when an STT input is live, is also
\* appended to the captured user audio and offered to the STT input; with
\* no live STT input the captured user audio is left as it is.
C23_EchoNotForwarded ==
    au.last.len >= 0 =>
        LET p == au.last.mid
            q == au.last.post
            len == au.last.len
        IN  IF au.last.echo
            THEN q.sent = p.sent /\ q.user = p.user /\ q.buf = p.buf
            ELSE /\ IF au.last.trimmed THEN q.buf = 132300
                    ELSE q.buf = p.buf + len
                 /\ IF au.last.chan
                    THEN q.user = p.user + len /\ q.sent = p.sent + len
                    ELSE q.user = p.user /\ q.sent = p.sent

\* a chunk that is not echo, written while audio has been played and an
\* STT input is live
C23_Witness ==
    /\ au.last.len > 0 /\ ~au.last.echo /\ au.last.chan /\ au.played
    /\ au.last.post.sent = au.last.mid.sent + au.last.len
    /\ au.last.post.user = au.last.mid.user + au.last.len

\* C24: when the VAD has reported speaking again during a speech-end hold,
\* the hold reinserts the captured buffer and starts no transcription;
\* otherwise it runs the batch pipeline, once, on the captured copy.
C24_HoldResumed ==
    au.fire.any =>
        IF au.fire.resumed
        THEN au.fire.reinserted /\ ~au.fire.ran
        ELSE au.fire.ran /\ ~au.fire.reinserted

\* ------------------------------------------ the latency timestamps alone
\* One turn after the other on the batch path, every step dt time units
\* after the step before: SpeechStart with the bot silent resets the
\* per-turn timestamps; SpeechEnd sets userSpeechEndTime; runBatchPipeline
\* sets sttStartTime and, when Transcribe succeeds, sttEndTime;
\* runLLMAndTTS sets llmStartTime and, when GenerateResponse succeeds,
\* llmEndTime, then botSpeakStartTime and ttsStartTime; the chunk callback
\* sets lastAudioSentAt and the first ttsFirstChunkTime; the return of
\* SynthesizeStream sets ttsEndTime.
latUnch == << minWords, two, cs, vad, au, pa, stt, flagsV, handlesV, sttGeneration,
              cancelled, lifeV, chanV, envV, ttsAborted, sess, pc, loc, ops,
              ghost >>

LatSpeechStart(dt) ==
    /\ lat.phase = "idle"
    /\ lat.turns < MaxTurns
    /\ lat' = [lat EXCEPT !.now = @ + dt,
                          !.phase = "user", !.turns = @ + 1,
                          !.sttStartTime = NoTime, !.sttEndTime = NoTime,
                          !.llmStartTime = NoTime, !.llmEndTime = NoTime,
                          !.ttsStartTime = NoTime,
                          !.ttsFirstChunkTime = NoTime,
                          !.ttsEndTime = NoTime]
    /\ UNCHANGED latUnch

LatSpeechEnd(dt) ==
    /\ lat.phase = "user"
    /\ lat' = [lat EXCEPT !.now = @ + dt, !.phase = "hold",
                          !.userSpeechEndTime = lat.now + dt]
    /\ UNCHANGED latUnch

LatBatchStart(dt) ==
    /\ lat.phase = "hold"
    /\ lat' = [lat EXCEPT !.now = @ + dt, !.phase = "stt",
                          !.sttStartTime = lat.now + dt]
    /\ UNCHANGED latUnch

LatTranscribed(failed, dt) ==
    /\ lat.phase = "stt"
    /\ lat' = IF failed THEN [lat EXCEPT !.now = @ + dt, !.phase = "idle"]
              ELSE [lat EXCEPT !.now = @ + dt, !.phase = "think",
                               !.sttEndTime = lat.now + dt]
    /\ UNCHANGED latUnch

LatLLMStart(dt) ==
    /\ lat.phase = "think"
    /\ lat' = [lat EXCEPT !.now = @ + dt, !.phase = "llm",
                          !.llmStartTime = lat.now + dt]
    /\ UNCHANGED latUnch

LatGenerated(failed, dt) ==
    /\ lat.phase = "llm"
    /\ lat' = IF failed THEN [lat EXCEPT !.now = @ + dt, !.phase = "idle"]
              ELSE [lat EXCEPT !.now = @ + dt, !.phase = "speak",
                               !.llmEndTime = lat.now + dt]
    /\ UNCHANGED latUnch

LatBotSpeak(dt) ==
    /\ lat.phase = "speak"
    /\ lat' = [lat EXCEPT !.now = @ + dt, !.phase = "tts", !.chunks = 0,
                          !.botSpeakStartTime = lat.now + dt,
                          !.ttsStartTime = lat.now + dt]
    /\ UNCHANGED latUnch

LatChunk(dt) ==
    /\ lat.phase = "tts"
    /\ lat.chunks < LatChunks
    /\ lat' = [lat EXCEPT !.now = @ + dt, !.chunks = @ + 1,
                          !.lastAudioSentAt = lat.now + dt,
                          !.ttsFirstChunkTime =
                              IF @ = NoTime THEN lat.now + dt ELSE @]
    /\ UNCHANGED latUnch

LatSynthesized(dt) ==
    /\ lat.phase = "tts"
    /\ lat' = [lat EXCEPT !.now = @ + dt, !.phase = "idle",
                          !.ttsEndTime = IF lat.ttsStartTime # NoTime
                                         THEN lat.now + dt ELSE @]
    /\ UNCHANGED latUnch

InitLatency == Start(FALSE) /\ Aside({})

NextLatency ==
    \E dt \in {1, 2} :
        \/ LatSpeechStart(dt) \/ LatSpeechEnd(dt) \/ LatBatchStart(dt)
        \/ \E f \in BOOLEAN : LatTranscribed(f, dt)
        \/ LatLLMStart(dt)
        \/ \E f \in BOOLEAN : LatGenerated(f, dt)
        \/ LatBotSpeak(dt) \/ LatChunk(dt) \/ LatSynthesized(dt)

SpecLatency == InitLatency /\ [][NextLatency]_vars

\* the difference of two timestamps when both are set and in order, zero
\* otherwise
Elapsed(from, to) ==
    IF from # NoTime /\ to # NoTime /\ to >= from THEN to - from ELSE 0

\* C27: every field of GetLatencyBreakdown() is the difference of its two
\* timestamps when both are set and in order and zero otherwise; no field
\* is negative.
C27_LatencyBreakdown ==
    LET bd == GetLatencyBreakdown(lat)
        u == lat.userSpeechEndTime
    IN  /\ bd.UserToSTT = Elapsed(u, lat.sttEndTime)
        /\ bd.STT = Elapsed(lat.sttStartTime, lat.sttEndTime)
        /\ bd.UserToLLM = Elapsed(u, lat.llmEndTime)
        /\ bd.LLM = Elapsed(lat.llmStartTime, lat.llmEndTime)
        /\ bd.UserToTTSFirstByte = Elapsed(u, lat.ttsFirstChunkTime)
        /\ bd.LLMToTTSFirstByte =
               Elapsed(lat.llmEndTime, lat.ttsFirstChunkTime)
        /\ bd.TTSTotal = Elapsed(lat.ttsStartTime, lat.ttsEndTime)
        /\ bd.BotStartLatency = Elapsed(u, lat.botSpeakStartTime)
        /\ bd.UserToPlay = Elapsed(u, lat.lastAudioSentAt)
        /\ \A f \in DOMAIN bd : bd[f] >= 0

\* ------------------------------------ ProcessAudio and ProcessAudioStream
\* what a provider answers: no error, or an error with this message
ProviderMsgs == {"", "timeout", "refused"}

\* the text the LLM provider generates
Response == << "r" >>

paUnch == << minWords, two, cs, vad, au, lat, stt, flagsV, handlesV, sttGeneration,
             cancelled, lifeV, chanV, envV, ttsAborted, pc, loc, ops, ghost >>

\* Orchestrator.ProcessAudio on session context s: the transcript and the
\* error returned, and the session context afterwards
ProcessAudio(in, s) ==
    IF in.stt # ""
    THEN [transcript |-> << >>,
          err |-> ErrorfPrefixW("transcription failed", ProviderErr(in.stt)),
          sess |-> s]
    ELSE IF Blank(in.transcript)
    THEN [transcript |-> << >>, err |-> ErrEmptyTranscription, sess |-> s]
    ELSE LET u == AddMessage(s, MaxMessages,
                             [role |-> "user", content |-> in.transcript])
             a == AddMessage(u, MaxMessages,
                             [role |-> "assistant", content |-> Response])
         IN  IF in.llm # ""
             THEN [transcript |-> in.transcript,
                   err |-> ErrorfWV(ErrLLMFailed, ProviderErr(in.llm)),
                   sess |-> u]
             ELSE IF in.tts # ""
             THEN [transcript |-> in.transcript,
                   err |-> ErrorfWV(ErrTTSFailed, ProviderErr(in.tts)),
                   sess |-> a]
             ELSE [transcript |-> in.transcript, err |-> NoErr, sess |-> a]

\* Orchestrator.ProcessAudioStream: the same steps, with SynthesizeStream
\* as the last one
ProcessAudioStream(in, s) ==
    IF in.stt # ""
    THEN [transcript |-> << >>,
          err |-> ErrorfPrefixW("transcription failed", ProviderErr(in.stt)),
          sess |-> s]
    ELSE IF Blank(in.transcript)
    THEN [transcript |-> << >>, err |-> ErrEmptyTranscription, sess |-> s]
    ELSE LET u == AddMessage(s, MaxMessages,
                             [role |-> "user", content |-> in.transcript])
             a == AddMessage(u, MaxMessages,
                             [role |-> "assistant", content |-> Response])
         IN  IF in.llm # ""
             THEN [transcript |-> in.transcript,
                   err |-> ErrorfWV(ErrLLMFailed, ProviderErr(in.llm)),
                   sess |-> u]
             ELSE IF in.tts # ""
             THEN [transcript |-> in.transcript,
                   err |-> ErrorfWV(ErrTTSFailed, ProviderErr(in.tts)),
                   sess |-> a]
             ELSE [transcript |-> in.transcript, err |-> NoErr, sess |-> a]

\* a call of ProcessAudio
PaProcessAudio(t, e1, e2, e3) ==
    LET in == [stream |-> FALSE, transcript |-> t, stt |-> e1, llm |-> e2,
               tts |-> e3]
        r == ProcessAudio(in, sess)
    IN  /\ pa.calls < MaxCalls
        /\ pa' = [in |-> in, calls |-> pa.calls + 1, before |-> sess,
                  ret |-> [transcript |-> r.transcript, err |-> r.err]]
        /\ sess' = r.sess
        /\ UNCHANGED paUnch

\* a call of ProcessAudioStream
PaProcessAudioStream(t, e1, e2, e3) ==
    LET in == [stream |-> TRUE, transcript |-> t, stt |-> e1, llm |-> e2,
               tts |-> e3]
        r == ProcessAudioStream(in, sess)
    IN  /\ pa.calls < MaxCalls
        /\ pa' = [in |-> in, calls |-> pa.calls + 1, before |-> sess,
                  ret |-> [transcript |-> r.transcript, err |-> r.err]]
        /\ sess' = r.sess
        /\ UNCHANGED paUnch

InitProcess == Start(FALSE) /\ Aside({})

NextProcess ==
    \E t \in Transcripts, e1 \in ProviderMsgs, e2 \in ProviderMsgs,
       e3 \in ProviderMsgs :
        \/ PaProcessAudio(t, e1, e2, e3)
        \/ PaProcessAudioStream(t, e1, e2, e3)

SpecProcess == InitProcess /\ [][NextProcess]_vars

\* errors.Is(err, tag)
Is(err, tag) == tag.chain \subseteq err.chain

\* the message of err holds the provider's message m
HasMessage(err, m) == \E k \in 1..Len(err.msg) : err.msg[k] = m

\* C29: a provider failure returned by ProcessAudio or ProcessAudioStream
\* carries the tag of the failing stage and the provider's message, and a
\* whitespace-only transcript returns ErrEmptyTranscription and leaves the
\* session unchanged.
C29_ErrorsWrapped ==
    pa.calls > 0 =>
        LET in == pa.in
            err == pa.ret.err
        IN  IF in.stt # ""
            THEN Is(err, ErrTranscriptionFailed) /\ HasMessage(err, in.stt)
            ELSE IF Blank(in.transcript)
            THEN err = ErrEmptyTranscription /\ sess = pa.before
            ELSE IF in.llm # ""
            THEN Is(err, ErrLLMFailed) /\ HasMessage(err, in.llm)
            ELSE IF in.tts # ""
            THEN Is(err, ErrTTSFailed) /\ HasMessage(err, in.tts)
            ELSE err = NoErr

\* C30: every read or write of a mutable field of the ManagedStream is made
\* while holding ms.mu.
C30_FieldsUnderMutex == ghost.unlocked = {}

\* ------------------------------------------------ a provider that blocks
\* Orchestrator.Transcribe, GenerateResponse and SynthesizeStream hand the
\* context they are given to the provider: no statement of the package
\* derives a context with a deadline from Config.STTTimeout, LLMTimeout or
\* TTSTimeout.  A provider call that blocks (loc[w].hung) returns, with
\* the context's error, once the context it was given is cancelled.
ProviderHangs(w) ==
    /\ pc[w] \in {"bpStt", "llm", "tts"}
    /\ ~loc[w].hung
    /\ loc' = [loc EXCEPT ![w].hung = TRUE]
    /\ UNCHANGED << wUnch, flagsV, handlesV, sttGeneration, cancelled, chanV,
                    envV, sess, pc, ghost >>

\* the context of the provider call worker w is in
StageTok(w) ==
    Tok(IF pc[w] = "bpStt" THEN "p" ELSE IF pc[w] = "llm" THEN "r" ELSE "t",
        w)

\* Write, one pipeline worker and providers that may block
NextTimeout ==
    /\ ~panicked
    /\ \/ WriteStep(LifeOps, {1})
       \/ \E w \in Workers : Worker(w)
       \/ \E w \in Workers : ProviderHangs(w)
       \/ \E p \in Procs : internalInterrupt(p)
       \/ Receive

\* Every goroutine of the package that can take a step takes one, and a
\* provider call that does not block returns.
FairTimeout ==
    /\ \A w \in Workers : WF_vars(Worker(w))
    /\ \A p \in Procs : WF_vars(internalInterrupt(p))
    /\ WF_vars(SSBarge \/ SSEmit)

SpecTimeout == Init /\ [][NextTimeout]_vars /\ FairTimeout

\* C28: a provider call of a turn that does not return and is not
\* interrupted ends with its stage's timeout: the turn emits an Error event.
C28_StageTimeout ==
    \A w \in Workers :
        loc[w].hung ~> ("Error" \in tlog[w] \/ Done(StageTok(w)))

\* ------------------------------------------- the Conversation facade
Voices == {"F1", "M3"}
Languages == {"en", "es"}

\* Config.MaxContextMessages of the conversations of SpecConv
ConfigMax == 1..MaxCtx

convUnch == << minWords, two, vad, au, lat, pa, stt, flagsV, handlesV,
               sttGeneration, cancelled, lifeV, chanV, envV, ttsAborted, pc,
               loc, ops, ghost >>

\* NewConversationWithConfig(stt, llm, tts, config): the orchestrator gets
\* config, the session is NewConversationSession's (MaxMessages = 20,
\* VoiceF1, LanguageEn)
NewConversationWithConfig(maxContextMessages) ==
    [CsInit(MaxMessages) EXCEPT !.cfg = maxContextMessages]

\* the caller of GetContextCopy (or Conversation.GetContext) writes to the
\* slice it got
MutateCopy(m) ==
    /\ cs.copied /\ Len(cs.copy) > 0
    /\ cs.copy[1] # m
    /\ LET to == IF cs.shared /\ Len(sess) > 0
                 THEN [sess EXCEPT ![1] = m] ELSE sess
       IN  /\ sess' = to
           /\ cs' = [cs EXCEPT !.copy = [cs.copy EXCEPT ![1] = m],
                               !.leak = @ \/ to # sess]
    /\ UNCHANGED convUnch

\* Orchestrator.SetVoice(session, voice): assigns session.CurrentVoice
\* without session.mu
OrchSetVoice(v) ==
    /\ cs.calls < MaxConvOps
    /\ cs' = [cs EXCEPT !.voice = v, !.calls = @ + 1,
                        !.unlocked = @ \cup {"CurrentVoice"}]
    /\ UNCHANGED << sess, convUnch >>

\* Orchestrator.SetLanguage(session, lang): assigns session.CurrentLanguage
\* without session.mu
OrchSetLanguage(l) ==
    /\ cs.calls < MaxConvOps
    /\ cs' = [cs EXCEPT !.language = l, !.calls = @ + 1,
                        !.unlocked = @ \cup {"CurrentLanguage"}]
    /\ UNCHANGED << sess, convUnch >>

\* Conversation.SetVoice: under session.mu
ConvSetVoice(v) ==
    /\ cs.calls < MaxConvOps
    /\ cs' = [cs EXCEPT !.voice = v, !.calls = @ + 1]
    /\ UNCHANGED << sess, convUnch >>

\* Conversation.SetLanguage: under session.mu
ConvSetLanguage(l) ==
    /\ cs.calls < MaxConvOps
    /\ cs' = [cs EXCEPT !.language = l, !.calls = @ + 1]
    /\ UNCHANGED << sess, convUnch >>

\* Conversation.Chat(text): AddMessage("user"), GenerateResponse (an error
\* returns), AddMessage("assistant"), then SynthesizeStream with
\* c.session.CurrentVoice and c.session.CurrentLanguage, read without
\* session.mu
ConvChat(text, llmFailed) ==
    LET um == [role |-> "user", turn |-> text]
        am == [role |-> "assistant", turn |-> text]
        u == AddMessage(sess, cs.max, um)
    IN  /\ cs.calls < MaxConvOps
        /\ Len(cs.added) + 2 <= ConvAdds
        /\ IF llmFailed
           THEN /\ sess' = u
                /\ cs' = [cs EXCEPT !.added = Append(@, um),
                                    !.lastUser = text, !.calls = @ + 1]
           ELSE /\ sess' = AddMessage(u, cs.max, am)
                /\ cs' = [cs EXCEPT
                              !.added = Append(Append(@, um), am),
                              !.lastUser = text, !.lastAssistant = text,
                              !.calls = @ + 1,
                              !.unlocked = @ \cup {"CurrentVoice",
                                                   "CurrentLanguage"}]
        /\ UNCHANGED convUnch

\* Conversation.ProcessAudio: ProcessAudioStream, which fails at stage
\* fail ("": at none) after the AddMessage calls before that stage, and,
\* when it returned no error, c.session.LastAssistant read without
\* session.mu
ConvProcessAudio(text, fail) ==
    LET um == [role |-> "user", turn |-> text]
        am == [role |-> "assistant", turn |-> text]
        u == AddMessage(sess, cs.max, um)
    IN  /\ cs.calls < MaxConvOps
        /\ Len(cs.added) + 2 <= ConvAdds
        /\ CASE fail = "stt" ->
                  /\ cs' = [cs EXCEPT !.calls = @ + 1]
                  /\ UNCHANGED sess
             [] fail = "llm" ->
                  /\ sess' = u
                  /\ cs' = [cs EXCEPT !.added = Append(@, um),
                                      !.lastUser = text, !.calls = @ + 1]
             [] OTHER ->
                  /\ sess' = AddMessage(u, cs.max, am)
                  /\ cs' = [cs EXCEPT
                                !.added = Append(Append(@, um), am),
                                !.lastUser = text, !.lastAssistant = text,
                                !.calls = @ + 1,
                                !.unlocked = @ \cup IF fail = ""
                                                    THEN {"LastAssistant"}
                                                    ELSE {}]
        /\ UNCHANGED convUnch

\* a conversation made with any configured history limit
InitConv ==
    /\ Start(FALSE) /\ Aside({"cs"})
    /\ cs \in {NewConversationWithConfig(m) : m \in ConfigMax}

NextConv ==
    \/ \E m \in Msgs : Len(cs.added) < ConvAdds /\ SessAddMessage(m)
    \/ GetContextCopy
    \/ \E m \in Msgs : MutateCopy(m)
    \/ \E v \in Voices : OrchSetVoice(v) \/ ConvSetVoice(v)
    \/ \E l \in Languages : OrchSetLanguage(l) \/ ConvSetLanguage(l)
    \/ \E t \in 1..2, f \in BOOLEAN : ConvChat(t, f)
    \/ \E t \in 1..2, f \in {"", "stt", "llm", "tts"} :
           ConvProcessAudio(t, f)

SpecConv == InitConv /\ [][NextConv]_vars

\* C31: every read and write of the session's context, last messages,
\* voice and language is made under the session's lock, and a write to the
\* slice GetContextCopy returned does not change the session.
C31_SessionUnderLock == cs.unlocked = {} /\ ~cs.leak

\* C32: a conversation created with MaxContextMessages = M keeps the last M
\* messages of its history.
C32_HistoryCapped ==
    LET n == Len(cs.added)
    IN  sess = IF n <= cs.cfg THEN cs.added
               ELSE SubSeq(cs.added, n - cs.cfg + 1, n)

\* C33: in the batch pipeline a transcript that is empty after trimming
\* whitespace ends the turn: the worker does not reach the statements that
\* emit TranscriptFinal, add the user message and call the LLM.
C33_BlankTranscriptEndsTurn ==
    \A w \in Workers :
        pc[w] \in {"bpGate", "bpFinal"} => ~Blank(loc[w].tr)

\* C34: a streaming STT callback invoked when sttGeneration has moved past
\* the generation its session captured emits no event, adds no message and
\* starts no interrupt; a barge-in and an internalInterrupt that finds
\* something to interrupt increment sttGeneration, and no step decreases it.
C34_StaleCallbackDropped ==
    [][/\ sttGeneration' >= sttGeneration
       /\ (stt'.calls = stt.calls + 1 /\ sttGeneration # stt.gen) =>
              /\ events' = events /\ tlog' = tlog /\ sess' = sess
              /\ pc' = pc /\ cancelled' = cancelled
       /\ (pc[Api] = "ssBarge" /\ pc'[Api] # "ssBarge") =>
              sttGeneration' = sttGeneration + 1
       /\ \A p \in Procs :
              (pc[p] = "iLock" /\ pc'[p] \in {"iReenq", "iEmit"}) =>
                  sttGeneration' = sttGeneration + 1]_vars

C34_Witness == ghost.staleCalls /\ sttGeneration >= 2 /\ stt.calls >= 2

\* C35: after Write returns, the VAD's threshold, minConfirmed and adaptive
\* mode equal the values they had before the call.
C35_VadSettingsRestored ==
    au.n > 0 =>
        /\ au.last.post.vad.threshold = au.last.pre.vad.threshold
        /\ au.last.post.vad.minConfirmed = au.last.pre.vad.minConfirmed
        /\ au.last.post.vad.adaptiveMode = au.last.pre.vad.adaptiveMode

\* C36: UserSpeaking and UserStopped alternate, starting with UserSpeaking:
\* emit(UserStopped) is called only after an emit(UserSpeaking) that no
\* UserStopped has followed, and emit(UserSpeaking) only when none is open.
C36_UserEventsAlternate == ~ghost.talk.bad

\* ------------------------------------- two streams of one Orchestrator
twoUnch == << minWords, cs, vad, au, lat, pa, stt, flagsV, handlesV,
              sttGeneration, cancelled, lifeV, chanV, envV, ttsAborted, sess,
              pc, loc, ops, ghost >>

\* runLLMAndTTS of stream s calls SynthesizeStream; StreamSynthesize calls
\* getConn, which under t.mu returns t.conn or dials a new connection
TwoGetConn(s) ==
    /\ two.st[s].at = "idle" /\ ~two.st[s].aborting
    /\ two.st[s].n < MaxSynth
    /\ two.mu = 0
    /\ LET c == IF two.conn # NoConn THEN two.conn ELSE two.dials + 1
       IN  two' = [two EXCEPT !.conn = c,
                              !.dials = IF two.conn # NoConn THEN @ ELSE c,
                              !.st[s].at = "gotConn", !.st[s].conn = c,
                              !.st[s].cancelled = FALSE,
                              !.st[s].n = @ + 1]
    /\ UNCHANGED twoUnch

\* StreamSynthesize takes t.mu and writes the request: on a closed
\* connection or with its context cancelled the write fails, t.conn is set
\* to nil, the connection is closed and the error returned
TwoWrite(s) ==
    /\ two.st[s].at = "gotConn"
    /\ two.mu = 0
    /\ IF two.st[s].conn \in two.closed \/ two.st[s].cancelled
       THEN two' = [two EXCEPT !.conn = NoConn,
                               !.closed = @ \cup {two.st[s].conn},
                               !.st[s].at = "err"]
       ELSE two' = [two EXCEPT !.mu = s, !.st[s].at = "synth"]
    /\ UNCHANGED twoUnch

\* StreamSynthesize reads until "EOS": the read fails when the context is
\* cancelled (t.conn = nil, the connection closed); the deferred Unlock
TwoRead(s) ==
    /\ two.st[s].at = "synth"
    /\ IF two.st[s].cancelled
       THEN two' = [two EXCEPT !.conn = NoConn,
                               !.closed = @ \cup {two.st[s].conn},
                               !.mu = 0, !.st[s].at = "err"]
       ELSE two' = [two EXCEPT !.mu = 0, !.st[s].at = "ok"]
    /\ UNCHANGED twoUnch

\* runLLMAndTTS of stream s returns
TwoReturn(s) ==
    /\ two.st[s].at \in {"ok", "err"}
    /\ two' = [two EXCEPT !.st[s].at = "idle", !.st[s].conn = NoConn,
                          !.st[s].cancelled = FALSE]
    /\ UNCHANGED twoUnch

\* internalInterrupt of stream s (Interrupt(), a barge-in or Close), up to
\* the call of its own ttsCancel
TwoInterrupt(s) ==
    /\ ~two.st[s].aborting
    /\ two.st[s].ints < MaxInts
    /\ two' = [two EXCEPT !.st[s].aborting = TRUE, !.st[s].ints = @ + 1,
                          !.st[s].cancelled =
                              @ \/ two.st[s].at \in {"gotConn", "synth"}]
    /\ UNCHANGED twoUnch

\* internalInterrupt of stream s calls ms.orch.tts.Abort(): under t.mu,
\* close t.conn when it is not nil and set it to nil
TwoAbort(s) ==
    /\ two.st[s].aborting
    /\ two.mu = 0
    /\ two' = [two EXCEPT !.conn = NoConn,
                          !.closed = IF two.conn # NoConn
                                     THEN @ \cup {two.conn} ELSE @,
                          !.st[s].aborting = FALSE]
    /\ UNCHANGED twoUnch

InitTwo == Start(FALSE) /\ Aside({})

NextTwo ==
    \E s \in Streams :
        \/ TwoGetConn(s) \/ TwoWrite(s) \/ TwoRead(s) \/ TwoReturn(s)
        \/ TwoInterrupt(s) \/ TwoAbort(s)

SpecTwo == InitTwo /\ [][NextTwo]_vars

\* C37: an interrupt, barge-in or Close on one stream does not abort the
\* other stream's synthesis: a synthesis fails only when its own stream
\* has cancelled it.
C37_StreamsIndependent ==
    \A s \in Streams : two.st[s].at = "err" => two.st[s].cancelled

\* the turn of worker w was interrupted: one of its contexts is cancelled
Interrupted(w) == \E k \in {"p", "r", "t"} : Tok(k, w) \in cancelled

\* C38: a pipeline worker whose turn was interrupted does not change the
\* state of a later turn: returning from runLLMAndTTS it clears neither the
\* other turn's ttsCancel nor the isSpeaking that turn has set, and entering
\* runLLMAndTTS it does not cancel the other turn's response context.
C38_LateWorkerHarmless ==
    [][\A w \in Workers : \A v \in Workers \ {w} :
          /\ (/\ pc[w] = "rEnd" /\ pc'[w] = "done" /\ Interrupted(w)
              /\ ttsCancel = Tok("t", v)) =>
                 ttsCancel' = ttsCancel /\ isSpeaking' = isSpeaking
          /\ (/\ pc[w] = "rSetup" /\ pc'[w] = "llm" /\ Interrupted(w)
              /\ responseCancel = Tok("r", v)
              /\ Tok("r", v) \notin cancelled) =>
                 Tok("r", v) \notin cancelled']_vars

\* Write, Close and Interrupt called once from a second goroutine, with one
\* pipeline worker
NextCloseUi ==
    /\ ~panicked
    /\ \/ WriteStep(OrderOps, {1})
       \/ ApiClose \/ ClCancel \/ ClClose
       \/ UiInterrupt
       \/ \E w \in Workers : Worker(w)
       \/ \E p \in Procs : internalInterrupt(p)
       \/ Receive

SpecCloseUi == Init /\ [][NextCloseUi]_vars

\* C39: once Close has closed the event channel no send on it is
\* attempted: an Interrupt() call, a pipeline worker and a hold timer end
\* without a panic.
C39_NoSendAfterClose ==
    eventsClosed =>
        ~(/\ panicked
          /\ \E p \in {Ui} \cup Workers : pc[p] = "iReenq")

\* the chunks of a buffer are there once and in the order of their Writes
InCaptureOrder(s) ==
    \A i, j \in DOMAIN s : i < j => s[i].id < s[j].id

\* C40: after a speech-end hold has reinserted its captured buffer, the
\* audio handed to batch STT holds every captured chunk once and in capture
\* order, the reinserted audio before the chunks written during the hold.
C40_ReinsertedInOrder ==
    au.reins /\ au.fire.ran => InCaptureOrder(au.handed)

====
